---- MODULE Spec2Model ----
(***************************************************************************)
(* Model of the transaction engine of fintech-banking-system:              *)
(*   LedgerService       src/modules/ledger/ledger.service.ts              *)
(*   WalletsService      src/modules/wallets/wallets.controller.ts         *)
(*   TransactionsService src/modules/transactions/transactions.service.ts  *)
(*   TransactionProcessor (the Bull worker of the 'transactions' queue)    *)
(*                                                                         *)
(* The services are in-process singletons run by one JavaScript event      *)
(* loop: the code between two awaits runs atomically, and any other call   *)
(* may run at an await.  Every action below is one such atomic segment.    *)
(* An async function's body runs synchronously up to its first await, so   *)
(* "await f(x)" runs f's body in the caller's segment and then yields.     *)
(*                                                                         *)
(* Money is counted in units of 0.01, so the ledger's tolerance of 0.01 is *)
(* one unit.                                                               *)
(***************************************************************************)
EXTENDS Integers, Sequences, FiniteSets, TLC

\* ---------------------------------------------------------------- bounds
NumAccounts == 2      \* ledger accounts createAccount may create
MaxEntries == 2       \* entries of one posted group
MaxAmount == 2        \* largest amount of an entry / a transaction
MaxPostings == 2      \* createTransaction / reverseTransaction calls of the ledger clients
NumLedgerKeys == 2    \* idempotency keys the ledger clients use
MaxClock == 1         \* values Date.now() takes in reverseTransaction
NumWallets == 2       \* wallets of the WalletsService
MaxBalance == 2       \* the balance wallet 1 starts with (the others start empty)
NumUsers == 1         \* users; wallet w belongs to user ((w - 1) % NumUsers) + 1
NumKeys == 2          \* idempotency keys the API clients use
MaxTxAmount == 1      \* largest amount of a request
MaxFee == 1           \* largest fee of a request
MaxLedgerCalls == 3   \* ledger calls of the clients of SpecReverse
MaxTransactions == 2  \* Transaction records create may store
NumIdentifiers == 2   \* identifiers (IP addresses) the SecurityService sees
MaxAttempts == 6      \* recordFailedAttempt calls made in all
MaxTime == 3          \* ticks the timer clock runs through
MaxRetryConfig == 3   \* largest maxRetries of a RetryConfig
RequestsPerSecond == 1  \* config.requestsPerSecond of the limiter's callers
RequestsPerMinute == 2  \* config.requestsPerMinute of the limiter's callers
MaxOffset == 3        \* latest clock reading after the start of a minute, in ticks of 500 ms

\* Math.abs(totalDebits - totalCredits) > 0.01, in units of 0.01
Tolerance == 1
\* if (attempts >= 5)
BlockThreshold == 5
\* setTimeout(..., 15 * 60 * 1000), in ticks of 7.5 minutes
ResetDelay == 2
\* now - req.timestamp < 1000, in ticks of 500 ms
OneSecond == 2
\* now - req.timestamp < 60000, in ticks of 500 ms
OneMinute == 120

\* ------------------------------------------------------------ vocabulary
LedgerAccountTypes == {"ASSET", "LIABILITY", "EQUITY", "REVENUE", "EXPENSE"}
LedgerEntryTypes == {"DEBIT", "CREDIT"}
\* one account type of each kind the ledger tells apart: ASSET (debit raises
\* it, may not go negative), EXPENSE (debit raises it) and the types a credit
\* raises
LedgerTypeKinds == {"ASSET", "LIABILITY", "EXPENSE"}

\* uuidv4() values handed out by createAccount; no other account id exists
AccountId(i) == "acct-uuid-" \o ToString(i)
AccountIds == {AccountId(i) : i \in 1..NumAccounts}

LedgerClients == {"c1", "c2"}
\* the clients of SpecLedger, which makes its ledger calls one after the other
SequentialClients == {"c1"}
Workers == {"w1", "w2"}
\* everything that may have a createTransaction call of the ledger in flight
LedgerCallers == LedgerClients \cup Workers
LedgerKeys == {"lk" \o ToString(i) : i \in 1..NumLedgerKeys}

NoMap == [x \in {} |-> 0]
None == "none"
\* an optional wallet id that is undefined, and "no transaction id"
NoWallet == 0
NoTransaction == 0

VARIABLES
    ledgerAccounts,         \* LedgerService.accounts: id -> [type, balance]
    ledgerEntries,          \* LedgerService.entries: the entry log
    ledgerTransactions,     \* LedgerService.transactions: id -> LedgerTransaction
    ledgerIdempotencyKeys,  \* LedgerService.idempotencyKeys: key -> transaction id
    ledgerLocks,            \* LedgerService.locks: the account ids mapped to true
    lcall,                  \* the createTransaction call in flight of each caller
    client,                 \* position of each direct client of the LedgerService
    postings,               \* number of ledger calls the clients have made
    clock,                  \* the last value Date.now() returned
    wallets,                \* WalletsService.wallets: id -> [userId, balance]
    transactions,           \* TransactionsService.transactions: id -> Transaction
    idempotencyKeys,        \* TransactionsService.idempotencyKeys: key -> transaction id
    locks,                  \* TransactionsService.locks: wallet id -> TransactionLock
    jobs,                   \* 'process-transaction' jobs added to the queue, in order
    request,                \* the create call of each API request slot
    worker,                 \* the processTransaction call of each queue worker
    walletUpdates,          \* history: per transaction, the updateBalance calls
                            \* its processing made that succeeded
    suspiciousIPs,          \* SecurityService.suspiciousIPs
    failedAttempts,         \* SecurityService.failedAttempts: identifier -> count
    timers,                 \* the setTimeout callbacks pending, in the order set
    time,                   \* the clock the timers run on, in ticks
    attemptCalls,           \* number of recordFailedAttempt calls made
    attemptLog,             \* history: per identifier, the times of the
                            \* recordFailedAttempt calls since the last
                            \* clearFailedAttempts call
    retry,                  \* the RetryUtil.executeWithRetry call in flight
    rateRequests,           \* RateLimiter.requests: key -> timestamps recorded
    rateNow,                \* the last value Date.now() returned to the limiter
    rateAnswer,             \* what the last checkRateLimit call returned
    rateAllowed             \* history: per key, the timestamps of the calls
                            \* answered allowed = true

ledgerState == <<ledgerAccounts, ledgerEntries, ledgerTransactions,
                 ledgerIdempotencyKeys>>
ledgerVars == <<ledgerAccounts, ledgerEntries, ledgerTransactions,
                ledgerIdempotencyKeys, ledgerLocks, lcall>>
clientVars == <<client, postings, clock>>
engineVars == <<wallets, transactions, idempotencyKeys, locks, jobs, request,
                worker, walletUpdates>>
securityVars == <<suspiciousIPs, failedAttempts, timers, time, attemptCalls,
                  attemptLog>>
retryVars == <<retry>>
rateVars == <<rateRequests, rateNow, rateAnswer, rateAllowed>>
\* the state of the common services and utilities
commonVars == <<securityVars, retryVars, rateVars>>
vars == <<ledgerVars, clientVars, engineVars, commonVars>>

\* ------------------------------------------------------- pure functions
Abs(x) == IF x < 0 THEN -x ELSE x

RECURSIVE SumAmounts(_, _)
\* entries.filter(e => e.type === t).reduce((sum, e) => sum + e.amount, 0)
SumAmounts(es, t) ==
    IF es = <<>> THEN 0
    ELSE (IF Head(es).type = t THEN Head(es).amount ELSE 0) + SumAmounts(Tail(es), t)

\* Fault variant of Unbalanced: the difference compared without Math.abs, so
\* that a group whose credits exceed its debits passes
UnbalancedWithoutAbs(es) ==
    SumAmounts(es, "DEBIT") - SumAmounts(es, "CREDIT") > Tolerance

\* the double-entry check of createTransaction: TRUE when the group is rejected
Unbalanced(es) ==
    Abs(SumAmounts(es, "DEBIT") - SumAmounts(es, "CREDIT")) > Tolerance

RECURSIVE Distinct(_, _)
Distinct(s, seen) ==
    IF s = <<>> THEN <<>>
    ELSE IF Head(s) \in seen THEN Distinct(Tail(s), seen)
         ELSE <<Head(s)>> \o Distinct(Tail(s), seen \cup {Head(s)})

\* [...new Set(entries.map((e) => e.accountId))]: distinct, in insertion order
AffectedAccounts(es) == Distinct([i \in 1..Len(es) |-> es[i].accountId], {})

\* Fault variant of shouldIncreaseBalance: only ASSET accounts are increased by
\* a debit
shouldIncreaseBalanceOfAssetsOnly(accountType, entryType) ==
    IF accountType = "ASSET"
    THEN entryType = "DEBIT"
    ELSE entryType = "CREDIT"

\* shouldIncreaseBalance(accountType, entryType)
shouldIncreaseBalance(accountType, entryType) ==
    IF accountType \in {"ASSET", "EXPENSE"}
    THEN entryType = "DEBIT"
    ELSE entryType = "CREDIT"

\* the balance an entry gives its account
NewBalance(account, entry) ==
    IF shouldIncreaseBalance(account.type, entry.type)
    THEN account.balance + entry.amount
    ELSE account.balance - entry.amount

\* the check that throws ConflictException('Insufficient balance in account')
AssetWouldGoNegative(account, newBalance) ==
    account.type = "ASSET" /\ newBalance < 0

RECURSIVE ApplyLoop(_, _, _, _, _)
\* The "Create ledger entries" loop of createTransaction from entry i on: each
\* entry is checked and then applied at once, before the next one is looked at.
\* Returns the accounts and the log as the loop leaves them, the entries it
\* made, and whether it threw.
ApplyLoop(accts, log, made, es, txid) ==
    IF es = <<>>
    THEN [accounts |-> accts, entries |-> log, made |-> made, threw |-> FALSE]
    ELSE LET e == Head(es)
             account == accts[e.accountId]
             newBalance == NewBalance(account, e)
             ledgerEntry == [transactionId |-> txid, accountId |-> e.accountId,
                             type |-> e.type, amount |-> e.amount,
                             balance |-> newBalance]
         IN IF AssetWouldGoNegative(account, newBalance)
            THEN [accounts |-> accts, entries |-> log, made |-> made, threw |-> TRUE]
            ELSE ApplyLoop([accts EXCEPT ![e.accountId].balance = newBalance],
                           Append(log, ledgerEntry), Append(made, ledgerEntry),
                           Tail(es), txid)

\* uuidv4() for a ledger transaction: an id no transaction, entry or call uses
LedgerIdsInUse ==
    DOMAIN ledgerTransactions
    \cup {ledgerEntries[i].transactionId : i \in 1..Len(ledgerEntries)}
    \cup {lcall[p].txid : p \in DOMAIN lcall}
FreshLedgerId == CHOOSE n \in 1..(Cardinality(LedgerIdsInUse) + 1) : n \notin LedgerIdsInUse

\* Map.set(k, v)
MapSet(m, k, v) == [x \in DOMAIN m \cup {k} |-> IF x = k THEN v ELSE m[x]]

\* --------------------------------------------- LedgerService.createTransaction
\* lcall[p].pc:  idle       no call in flight
\*               locking    awaiting lockAccount(affected[i]), which succeeded
\*               rejected   awaiting a call that threw (err); the finally is next
\*               validating awaiting getAccount(entries[i]), which succeeded
\*               unlocking  in the finally, awaiting unlockAccount(affected[i])
\*               done       settled: returned result, or threw err
IdleCall == [pc |-> "idle", key |-> None, entries |-> <<>>, affected |-> <<>>,
             i |-> 0, txid |-> 0, err |-> None, result |-> 0]

\* lockAccount(accountId) throws ConflictException when locks.get(accountId)
lockAccountThrows(accountId) == accountId \in ledgerLocks

\* Fault variant of LedgerCreateTransactionCall: the call without the
\* idempotency check
LedgerCreateTransactionCallWithoutLookup(p, key, es) ==
    /\ LET affected == AffectedAccounts(es)
           frame == [IdleCall EXCEPT !.key = key, !.entries = es,
                                     !.affected = affected, !.txid = FreshLedgerId]
       IN IF lockAccountThrows(affected[1])
          THEN /\ lcall' = [lcall EXCEPT ![p] =
                      [frame EXCEPT !.pc = "rejected", !.err = "AccountLocked"]]
               /\ UNCHANGED ledgerLocks
          ELSE /\ lcall' = [lcall EXCEPT ![p] = [frame EXCEPT !.pc = "locking", !.i = 1]]
               /\ ledgerLocks' = ledgerLocks \cup {affected[1]}
    /\ UNCHANGED <<ledgerAccounts, ledgerEntries, ledgerTransactions,
                   ledgerIdempotencyKeys>>

\* The call itself: the idempotency check, uuidv4(), affectedAccounts and the
\* first lockAccount, up to the first await.
LedgerCreateTransactionCall(p, key, es) ==
    /\ IF /\ key \in DOMAIN ledgerIdempotencyKeys
          /\ ledgerIdempotencyKeys[key] \in DOMAIN ledgerTransactions
       THEN /\ lcall' = [lcall EXCEPT ![p] =
                   [IdleCall EXCEPT !.pc = "done", !.key = key, !.entries = es,
                                    !.result = ledgerIdempotencyKeys[key]]]
            /\ UNCHANGED ledgerLocks
       ELSE LET affected == AffectedAccounts(es)
                frame == [IdleCall EXCEPT !.key = key, !.entries = es,
                                          !.affected = affected,
                                          !.txid = FreshLedgerId]
            IN IF lockAccountThrows(affected[1])
               THEN /\ lcall' = [lcall EXCEPT ![p] =
                           [frame EXCEPT !.pc = "rejected", !.err = "AccountLocked"]]
                    /\ UNCHANGED ledgerLocks
               ELSE /\ lcall' = [lcall EXCEPT ![p] =
                           [frame EXCEPT !.pc = "locking", !.i = 1]]
                    /\ ledgerLocks' = ledgerLocks \cup {affected[1]}
    /\ UNCHANGED <<ledgerAccounts, ledgerEntries, ledgerTransactions,
                   ledgerIdempotencyKeys>>

\* Fault variant of EnterFinally: the accounts are unlocked at the end of the
\* try block instead of in a finally, so a call that throws unlocks nothing
EnterFinallyOnSuccessOnly(p, err, result, held) ==
    IF err = None
    THEN /\ ledgerLocks' = held \ {lcall[p].affected[1]}
         /\ lcall' = [lcall EXCEPT ![p].pc = "unlocking", ![p].i = 1,
                                   ![p].err = err, ![p].result = result]
    ELSE /\ ledgerLocks' = held
         /\ lcall' = [lcall EXCEPT ![p].pc = "done", ![p].err = err,
                                   ![p].result = result]

\* The finally block is entered: unlockAccount(affected[1]) runs, then it awaits.
\* `held` is the lock table the block finds.
EnterFinally(p, err, result, held) ==
    /\ ledgerLocks' = held \ {lcall[p].affected[1]}
    /\ lcall' = [lcall EXCEPT ![p].pc = "unlocking", ![p].i = 1,
                              ![p].err = err, ![p].result = result]

\* getAccount(entries[i].accountId) of the "Validate all accounts exist" loop
GetAccountCall(p, i) ==
    /\ IF lcall[p].entries[i].accountId \in DOMAIN ledgerAccounts
       THEN lcall' = [lcall EXCEPT ![p].pc = "validating", ![p].i = i]
       ELSE lcall' = [lcall EXCEPT ![p].pc = "rejected", ![p].err = "AccountNotFound"]
    /\ UNCHANGED ledgerLocks

\* Fault variant of ApplyAndRecord: the new entries are put in front of the
\* log (unshift) instead of at its end
ApplyAndRecordNewestFirst(p) ==
    LET f == lcall[p]
        r == ApplyLoop(ledgerAccounts, <<>>, <<>>, f.entries, f.txid)
        transaction == [idempotencyKey |-> f.key, entries |-> r.made,
                        totalAmount |-> SumAmounts(f.entries, "DEBIT"),
                        status |-> "COMPLETED"]
    IN /\ ledgerAccounts' = r.accounts
       /\ ledgerEntries' = r.entries \o ledgerEntries
       /\ IF r.threw
          THEN /\ UNCHANGED <<ledgerTransactions, ledgerIdempotencyKeys>>
               /\ EnterFinally(p, "InsufficientBalance", 0, ledgerLocks)
          ELSE /\ ledgerTransactions' = MapSet(ledgerTransactions, f.txid, transaction)
               /\ ledgerIdempotencyKeys' = MapSet(ledgerIdempotencyKeys, f.key, f.txid)
               /\ EnterFinally(p, None, f.txid, ledgerLocks)

\* The entry loop, the transaction record and the start of the finally block,
\* which run without an await between them.
ApplyAndRecord(p) ==
    LET f == lcall[p]
        r == ApplyLoop(ledgerAccounts, ledgerEntries, <<>>, f.entries, f.txid)
        transaction == [idempotencyKey |-> f.key, entries |-> r.made,
                        totalAmount |-> SumAmounts(f.entries, "DEBIT"),
                        status |-> "COMPLETED"]
    IN /\ ledgerAccounts' = r.accounts
       /\ ledgerEntries' = r.entries
       /\ IF r.threw
          THEN /\ UNCHANGED <<ledgerTransactions, ledgerIdempotencyKeys>>
               /\ EnterFinally(p, "InsufficientBalance", 0, ledgerLocks)
          ELSE /\ ledgerTransactions' = MapSet(ledgerTransactions, f.txid, transaction)
               /\ ledgerIdempotencyKeys' = MapSet(ledgerIdempotencyKeys, f.key, f.txid)
               /\ EnterFinally(p, None, f.txid, ledgerLocks)

\* One segment of a createTransaction call in flight, from the await it is
\* suspended at to the next one.
LedgerStep(p) ==
    LET f == lcall[p] IN
    /\ f.pc \in {"locking", "rejected", "validating", "unlocking"}
    /\ CASE f.pc = "locking" ->
              IF f.i < Len(f.affected)
              THEN /\ IF lockAccountThrows(f.affected[f.i + 1])
                      THEN /\ lcall' = [lcall EXCEPT ![p].pc = "rejected",
                                                     ![p].err = "AccountLocked"]
                           /\ UNCHANGED ledgerLocks
                      ELSE /\ lcall' = [lcall EXCEPT ![p].i = f.i + 1]
                           /\ ledgerLocks' = ledgerLocks \cup {f.affected[f.i + 1]}
                   /\ UNCHANGED <<ledgerAccounts, ledgerEntries, ledgerTransactions,
                                  ledgerIdempotencyKeys>>
              ELSE /\ IF Unbalanced(f.entries)
                      THEN EnterFinally(p, "Unbalanced", 0, ledgerLocks)
                      ELSE GetAccountCall(p, 1)
                   /\ UNCHANGED <<ledgerAccounts, ledgerEntries, ledgerTransactions,
                                  ledgerIdempotencyKeys>>
         [] f.pc = "validating" ->
              IF f.i < Len(f.entries)
              THEN /\ GetAccountCall(p, f.i + 1)
                   /\ UNCHANGED <<ledgerAccounts, ledgerEntries, ledgerTransactions,
                                  ledgerIdempotencyKeys>>
              ELSE ApplyAndRecord(p)
         [] f.pc = "rejected" ->
              /\ EnterFinally(p, f.err, 0, ledgerLocks)
              /\ UNCHANGED <<ledgerAccounts, ledgerEntries, ledgerTransactions,
                             ledgerIdempotencyKeys>>
         [] f.pc = "unlocking" ->
              /\ IF f.i < Len(f.affected)
                 THEN /\ ledgerLocks' = ledgerLocks \ {f.affected[f.i + 1]}
                      /\ lcall' = [lcall EXCEPT ![p].i = f.i + 1]
                 ELSE /\ lcall' = [lcall EXCEPT ![p].pc = "done"]
                      /\ UNCHANGED ledgerLocks
              /\ UNCHANGED <<ledgerAccounts, ledgerEntries, ledgerTransactions,
                             ledgerIdempotencyKeys>>

\* ------------------------------------------------ direct clients of the ledger
\* client[p].pc: idle, creating (in createTransaction), reversing (in
\* reverseTransaction after getTransaction), posting (in the createTransaction
\* call of reverseTransaction)
IdleClient == [pc |-> "idle", orig |-> 0, err |-> None]

EntryInputs == [accountId : AccountIds, type : LedgerEntryTypes, amount : 1..MaxAmount]
EntryGroups == UNION {[1..n -> EntryInputs] : n \in 1..MaxEntries}

\* createAccount(name, type, currency): a new account under a fresh uuid
CreateAccount(type) ==
    /\ UNCHANGED <<engineVars, commonVars>>
    /\ \E i \in 1..NumAccounts :
          /\ AccountId(i) \notin DOMAIN ledgerAccounts
          /\ \A j \in 1..(i - 1) : AccountId(j) \in DOMAIN ledgerAccounts
          /\ ledgerAccounts' = MapSet(ledgerAccounts, AccountId(i),
                                      [type |-> type, balance |-> 0])
    /\ UNCHANGED <<ledgerEntries, ledgerTransactions, ledgerIdempotencyKeys,
                   ledgerLocks, lcall, client, postings, clock>>

ClientCreateTransaction(p, key, es) ==
    /\ UNCHANGED <<engineVars, commonVars>>
    /\ client[p].pc = "idle"
    /\ postings < MaxPostings
    /\ LedgerCreateTransactionCall(p, key, es)
    /\ client' = [client EXCEPT ![p].pc = "creating", ![p].err = None]
    /\ postings' = postings + 1
    /\ UNCHANGED clock

ClientLedgerStep(p) ==
    /\ UNCHANGED <<engineVars, commonVars>>
    /\ p \in LedgerClients
    /\ LedgerStep(p)
    /\ UNCHANGED <<client, postings, clock>>

\* createTransaction has settled and the client's await of it resumes
ClientCreateReturn(p) ==
    /\ UNCHANGED <<engineVars, commonVars>>
    /\ client[p].pc = "creating"
    /\ lcall[p].pc = "done"
    /\ client' = [client EXCEPT ![p] = [IdleClient EXCEPT !.err = lcall[p].err]]
    /\ lcall' = [lcall EXCEPT ![p] = IdleCall]
    /\ UNCHANGED <<ledgerAccounts, ledgerEntries, ledgerTransactions,
                   ledgerIdempotencyKeys, ledgerLocks, postings, clock>>

\* reverseTransaction: the getTransaction call, up to its await; the clients
\* make at most bound ledger calls
ClientReverseCallWithin(p, id, bound) ==
    /\ UNCHANGED <<engineVars, commonVars>>
    /\ client[p].pc = "idle"
    /\ postings < bound
    /\ IF id \in DOMAIN ledgerTransactions
       THEN client' = [client EXCEPT ![p] = [pc |-> "reversing", orig |-> id, err |-> None]]
       ELSE client' = [client EXCEPT ![p] = [IdleClient EXCEPT !.err = "TransactionNotFound"]]
    /\ postings' = postings + 1
    /\ UNCHANGED <<ledgerAccounts, ledgerEntries, ledgerTransactions,
                   ledgerIdempotencyKeys, ledgerLocks, lcall, clock>>

ClientReverseCall(p, id) == ClientReverseCallWithin(p, id, MaxPostings)

\* Fault variant of ReversalEntries: the entries of the original copied as
\* they are
ReversalEntriesUnflipped(es) ==
    [i \in 1..Len(es) |->
        [accountId |-> es[i].accountId, type |-> es[i].type, amount |-> es[i].amount]]

\* originalTx.entries.map(...): debits and credits flipped
ReversalEntries(es) ==
    [i \in 1..Len(es) |->
        [accountId |-> es[i].accountId,
         type |-> IF es[i].type = "DEBIT" THEN "CREDIT" ELSE "DEBIT",
         amount |-> es[i].amount]]

\* `reversal-${originalTransactionId}-${Date.now()}`
ReversalKey(id, now) == "reversal-" \o ToString(id) \o "-" \o ToString(now)

\* reverseTransaction after getTransaction: the status check and the call of
\* createTransaction with the offsetting entries
ClientReversePost(p, now) ==
    /\ UNCHANGED <<engineVars, commonVars>>
    /\ client[p].pc = "reversing"
    /\ now >= clock
    /\ LET originalTx == ledgerTransactions[client[p].orig] IN
       IF originalTx.status = "REVERSED"
       THEN /\ client' = [client EXCEPT ![p] = [IdleClient EXCEPT !.err = "AlreadyReversed"]]
            /\ UNCHANGED <<ledgerAccounts, ledgerEntries, ledgerTransactions,
                           ledgerIdempotencyKeys, ledgerLocks, lcall, clock>>
       ELSE /\ LedgerCreateTransactionCall(p, ReversalKey(client[p].orig, now),
                                           ReversalEntries(originalTx.entries))
            /\ client' = [client EXCEPT ![p].pc = "posting"]
            /\ clock' = now
    /\ UNCHANGED postings

\* reverseTransaction after its createTransaction settled: the original is
\* marked REVERSED, unless the posting threw
ClientReverseReturn(p) ==
    /\ UNCHANGED <<engineVars, commonVars>>
    /\ client[p].pc = "posting"
    /\ lcall[p].pc = "done"
    /\ IF lcall[p].err = None
       THEN ledgerTransactions' =
                [ledgerTransactions EXCEPT ![client[p].orig].status = "REVERSED"]
       ELSE UNCHANGED ledgerTransactions
    /\ client' = [client EXCEPT ![p] = [IdleClient EXCEPT !.err = lcall[p].err]]
    /\ lcall' = [lcall EXCEPT ![p] = IdleCall]
    /\ UNCHANGED <<ledgerAccounts, ledgerEntries, ledgerIdempotencyKeys,
                   ledgerLocks, postings, clock>>

\* ------------------------------------------------------------ WalletsService
WalletIds == 1..NumWallets
Users == 1..NumUsers
WalletOwner(w) == ((w - 1) % NumUsers) + 1

\* Fault variant of updateBalance: the balance written without the
\* 'Insufficient balance' guard
updateBalanceWithoutGuard(ws, id, amount) ==
    IF id \notin DOMAIN ws
    THEN [wallets |-> ws, err |-> "WalletNotFound"]
    ELSE [wallets |-> [ws EXCEPT ![id].balance = ws[id].balance + amount],
          err |-> None]

\* updateBalance(id, amount): the wallets it leaves and what it throws
updateBalance(ws, id, amount) ==
    IF id \notin DOMAIN ws
    THEN [wallets |-> ws, err |-> "WalletNotFound"]
    ELSE IF ws[id].balance + amount < 0
         THEN [wallets |-> ws, err |-> "Insufficient balance"]
         ELSE [wallets |-> [ws EXCEPT ![id].balance = ws[id].balance + amount],
               err |-> None]

\* ------------------------------------------------------- TransactionsService
TransactionTypes == {"DEPOSIT", "WITHDRAWAL", "TRANSFER", "TRADE"}
Key(i) == "k" \o ToString(i)
Keys == {Key(i) : i \in 1..NumKeys}

\* The requests of Spec: each type with the wallet fields a client sends for
\* it.  An absent wallet field is NoWallet.
Requests ==
    {[idempotencyKey |-> k, type |-> "DEPOSIT", amount |-> a, fee |-> f,
      fromWalletId |-> NoWallet, toWalletId |-> t] :
        k \in Keys, a \in 1..MaxTxAmount, f \in 0..MaxFee, t \in WalletIds}
    \cup
    {[idempotencyKey |-> k, type |-> "WITHDRAWAL", amount |-> a, fee |-> f,
      fromWalletId |-> t, toWalletId |-> NoWallet] :
        k \in Keys, a \in 1..MaxTxAmount, f \in 0..MaxFee, t \in WalletIds}
    \cup
    {[idempotencyKey |-> k, type |-> "TRANSFER", amount |-> a, fee |-> f,
      fromWalletId |-> t[1], toWalletId |-> t[2]] :
        k \in Keys, a \in 1..MaxTxAmount, f \in 0..MaxFee,
        t \in {x \in WalletIds \X WalletIds : x[1] # x[2]}}
    \cup
    {[idempotencyKey |-> k, type |-> "TRADE", amount |-> a, fee |-> f,
      fromWalletId |-> NoWallet, toWalletId |-> NoWallet] :
        k \in Keys, a \in 1..MaxTxAmount, f \in 0..MaxFee}

\* Requests validateTransaction rejects: no positive amount, a transfer to the
\* source wallet, a deposit without destination, a withdrawal without source
InvalidRequests ==
    {[idempotencyKey |-> k, type |-> "DEPOSIT", amount |-> 0, fee |-> 0,
      fromWalletId |-> NoWallet, toWalletId |-> 1] : k \in Keys}
    \cup
    {[idempotencyKey |-> k, type |-> "TRANSFER", amount |-> 1, fee |-> 0,
      fromWalletId |-> 1, toWalletId |-> 1] : k \in Keys}
    \cup
    {[idempotencyKey |-> k, type |-> "DEPOSIT", amount |-> 1, fee |-> 0,
      fromWalletId |-> NoWallet, toWalletId |-> NoWallet] : k \in Keys}
    \cup
    {[idempotencyKey |-> k, type |-> "WITHDRAWAL", amount |-> 1, fee |-> 0,
      fromWalletId |-> NoWallet, toWalletId |-> 1] : k \in Keys}

RequestSlots == {"r1", "r2"}
\* the slot of Spec, whose API requests come one after the other
SequentialSlots == {"r1"}
RequestSlotOrder == <<"r1", "r2">>
WorkerOrder == <<"w1", "w2">>

\* Slots are interchangeable: a call takes the first idle one
SlotInOrder(frames, s, order) ==
    \A i, j \in 1..Len(order) : (order[j] = s /\ i < j) => frames[order[i]].pc # "idle"

\* request[r].pc: idle; v_from / v_to: in validateTransaction, awaiting
\* walletsService.findOne of the source / destination wallet; validated:
\* awaiting validateTransaction, which returned; done: create settled
\* (result returned, or err thrown), its await of transactionQueue.add included;
\* existing: the result is the stored transaction the idempotency check found
NoRequest == [idempotencyKey |-> None, type |-> None, amount |-> 0, fee |-> 0,
              fromWalletId |-> NoWallet, toWalletId |-> NoWallet]
IdleRequest == [pc |-> "idle", dto |-> NoRequest, userId |-> 0,
                fromWallet |-> [userId |-> 0, balance |-> 0],
                result |-> NoTransaction, err |-> None, existing |-> FALSE]

\* The frame of a call that needs its arguments no more: it keeps the key, the
\* transaction it returns and the error it throws
Settled(f, pc, result, err) ==
    [IdleRequest EXCEPT !.pc = pc,
                        !.dto = [NoRequest EXCEPT !.idempotencyKey = f.dto.idempotencyKey],
                        !.result = result, !.err = err]

\* the switch of validateTransaction: what it throws
TypeRuleError(dto) ==
    CASE dto.type = "TRANSFER" /\ (dto.fromWalletId = NoWallet \/ dto.toWalletId = NoWallet)
            -> "Transfer requires both source and destination wallets"
      [] dto.type = "DEPOSIT" /\ dto.toWalletId = NoWallet
            -> "Deposit requires destination wallet"
      [] dto.type = "WITHDRAWAL" /\ dto.fromWalletId = NoWallet
            -> "Withdrawal requires source wallet"
      [] OTHER -> None

\* Fault variant of ExistingTransaction: the stored transaction counts as a
\* duplicate only while it is PENDING
ExistingPendingTransaction(key) ==
    IF /\ key \in DOMAIN idempotencyKeys
       /\ idempotencyKeys[key] \in DOMAIN transactions
       /\ transactions[idempotencyKeys[key]].status = "PENDING"
    THEN idempotencyKeys[key]
    ELSE NoTransaction

\* create's idempotency check: the stored transaction of the key, if any
ExistingTransaction(key) ==
    IF key \in DOMAIN idempotencyKeys /\ idempotencyKeys[key] \in DOMAIN transactions
    THEN idempotencyKeys[key]
    ELSE NoTransaction

\* validateTransaction from "if (dto.toWalletId)" on, up to its next await or
\* its end: the frame it leaves
ValidateFromTo(f) ==
    IF f.dto.toWalletId # NoWallet
    THEN IF f.dto.toWalletId \in DOMAIN wallets
         THEN [f EXCEPT !.pc = "v_to"]
         ELSE Settled(f, "done", NoTransaction, "WalletNotFound")
    ELSE IF TypeRuleError(f.dto) # None
         THEN Settled(f, "done", NoTransaction, TypeRuleError(f.dto))
         ELSE [f EXCEPT !.pc = "validated"]

\* validateTransaction from its start up to its first await or its end
ValidateFromStart(f) ==
    IF f.dto.amount <= 0
    THEN Settled(f, "done", NoTransaction, "Amount must be positive")
    ELSE IF f.dto.fromWalletId # NoWallet
         THEN IF f.dto.fromWalletId \in DOMAIN wallets
              THEN [f EXCEPT !.pc = "v_from", !.fromWallet = wallets[f.dto.fromWalletId]]
              ELSE Settled(f, "done", NoTransaction, "WalletNotFound")
         ELSE ValidateFromTo(f)

\* Fault variant of ValidateAfterFrom: without the balance test
ValidateAfterFromWithoutBalanceTest(f) ==
    IF f.fromWallet.userId # f.userId
    THEN Settled(f, "done", NoTransaction, "Source wallet does not belong to user")
    ELSE ValidateFromTo(f)

\* validateTransaction resumed with the source wallet findOne returned
ValidateAfterFrom(f) ==
    IF f.fromWallet.userId # f.userId
    THEN Settled(f, "done", NoTransaction, "Source wallet does not belong to user")
    ELSE IF f.fromWallet.balance < f.dto.amount + f.dto.fee
         THEN Settled(f, "done", NoTransaction, "Insufficient balance")
         ELSE ValidateFromTo(f)

\* Fault variant of ValidateAfterTo: without the same-wallet test
ValidateAfterToWithoutSameWalletTest(f) ==
    IF TypeRuleError(f.dto) # None
    THEN Settled(f, "done", NoTransaction, TypeRuleError(f.dto))
    ELSE [f EXCEPT !.pc = "validated"]

\* validateTransaction resumed with the destination wallet
ValidateAfterTo(f) ==
    IF f.dto.fromWalletId # NoWallet /\ f.dto.fromWalletId = f.dto.toWalletId
    THEN Settled(f, "done", NoTransaction, "Cannot transfer to the same wallet")
    ELSE IF TypeRuleError(f.dto) # None
         THEN Settled(f, "done", NoTransaction, TypeRuleError(f.dto))
         ELSE [f EXCEPT !.pc = "validated"]

\* validateTransaction(dto, userId) run from start to end on the wallets as
\* they are: the frame it leaves, "validated" or "done" with the error thrown
ValidationOutcome(dto, userId) ==
    LET start == ValidateFromStart([IdleRequest EXCEPT !.dto = dto, !.userId = userId])
        afterFrom == IF start.pc = "v_from" THEN ValidateAfterFrom(start) ELSE start
    IN IF afterFrom.pc = "v_to" THEN ValidateAfterTo(afterFrom) ELSE afterFrom

\* requests that passed the idempotency check and have not stored their record
RequestsInFlight == {r \in RequestSlots : request[r].pc \in {"v_from", "v_to", "validated"}}

\* the keys requests have used so far
KeysInUse == DOMAIN idempotencyKeys \cup {request[r].dto.idempotencyKey : r \in RequestSlots}

\* Keys are interchangeable: a request with a new key takes the first unused one
KeyInOrder(key) ==
    \A i, j \in 1..NumKeys : (Key(j) = key /\ i < j) => Key(i) \in KeysInUse

\* Fault variant of CreateCall: the idempotency key is entered in the index,
\* for the id the record will get, before the request is validated
CreateCallReservingKey(r, dto, userId) ==
    /\ request[r].pc = "idle"
    /\ SlotInOrder(request, r, RequestSlotOrder)
    /\ KeyInOrder(dto.idempotencyKey)
    /\ LET f == [IdleRequest EXCEPT !.dto = dto, !.userId = userId] IN
       IF ExistingTransaction(dto.idempotencyKey) # NoTransaction
       THEN /\ request' = [request EXCEPT ![r] =
                   [Settled(f, "done", ExistingTransaction(dto.idempotencyKey), None)
                       EXCEPT !.existing = TRUE]]
            /\ UNCHANGED idempotencyKeys
       ELSE /\ Cardinality(DOMAIN transactions) + Cardinality(RequestsInFlight)
                   < MaxTransactions
            /\ request' = [request EXCEPT ![r] = ValidateFromStart(f)]
            /\ idempotencyKeys' = MapSet(idempotencyKeys, dto.idempotencyKey,
                                         Cardinality(DOMAIN transactions) + 1)
    /\ UNCHANGED <<ledgerVars, clientVars, commonVars, wallets, transactions,
                   locks, jobs, worker, walletUpdates>>

\* create(dto, userId) up to its first await: the idempotency check, which
\* returns the stored transaction of the key, or else the start of validation
CreateCall(r, dto, userId) ==
    /\ request[r].pc = "idle"
    /\ SlotInOrder(request, r, RequestSlotOrder)
    /\ KeyInOrder(dto.idempotencyKey)
    /\ LET f == [IdleRequest EXCEPT !.dto = dto, !.userId = userId] IN
       IF ExistingTransaction(dto.idempotencyKey) # NoTransaction
       THEN request' = [request EXCEPT ![r] =
                [Settled(f, "done", ExistingTransaction(dto.idempotencyKey), None)
                    EXCEPT !.existing = TRUE]]
       ELSE /\ Cardinality(DOMAIN transactions) + Cardinality(RequestsInFlight)
                   < MaxTransactions
            /\ request' = [request EXCEPT ![r] = ValidateFromStart(f)]
    /\ UNCHANGED <<ledgerVars, clientVars, commonVars, wallets, transactions, idempotencyKeys,
                   locks, jobs, worker, walletUpdates>>

\* The Transaction record create stores
NewTransaction(dto, userId) ==
    [idempotencyKey |-> dto.idempotencyKey, userId |-> userId, type |-> dto.type,
     amount |-> dto.amount, fee |-> dto.fee, status |-> "PENDING",
     fromWalletId |-> dto.fromWalletId, toWalletId |-> dto.toWalletId,
     errorMessage |-> None, updatedAt |-> 0, completedAt |-> FALSE,
     cancelledAt |-> FALSE]

\* uuidv4() for a Transaction
FreshTransactionId == Cardinality(DOMAIN transactions) + 1

\* Fault variant of CreateStep: the record is stored and the job enqueued, but
\* the idempotency key is not entered in the index
CreateStepWithoutIndexEntry(r) ==
    LET f == request[r] IN
    /\ f.pc \in {"v_from", "v_to", "validated"}
    /\ CASE f.pc = "v_from" ->
              /\ request' = [request EXCEPT ![r] = ValidateAfterFrom(f)]
              /\ UNCHANGED <<transactions, idempotencyKeys, jobs>>
         [] f.pc = "v_to" ->
              /\ request' = [request EXCEPT ![r] = ValidateAfterTo(f)]
              /\ UNCHANGED <<transactions, idempotencyKeys, jobs>>
         [] f.pc = "validated" ->
              LET transactionId == FreshTransactionId IN
              /\ transactions' = MapSet(transactions, transactionId,
                                        NewTransaction(f.dto, f.userId))
              /\ UNCHANGED idempotencyKeys
              /\ jobs' = Append(jobs, transactionId)
              /\ request' = [request EXCEPT ![r] =
                                Settled(f, "done", transactionId, None)]
    /\ UNCHANGED <<ledgerVars, clientVars, commonVars, wallets, locks, worker,
                   walletUpdates>>

\* One segment of a create call in flight
CreateStep(r) ==
    LET f == request[r] IN
    /\ f.pc \in {"v_from", "v_to", "validated"}
    /\ CASE f.pc = "v_from" ->
              /\ request' = [request EXCEPT ![r] = ValidateAfterFrom(f)]
              /\ UNCHANGED <<transactions, idempotencyKeys, jobs>>
         [] f.pc = "v_to" ->
              /\ request' = [request EXCEPT ![r] = ValidateAfterTo(f)]
              /\ UNCHANGED <<transactions, idempotencyKeys, jobs>>
         [] f.pc = "validated" ->
              LET transactionId == FreshTransactionId IN
              /\ transactions' = MapSet(transactions, transactionId,
                                        NewTransaction(f.dto, f.userId))
              /\ idempotencyKeys' = MapSet(idempotencyKeys, f.dto.idempotencyKey,
                                           transactionId)
              /\ jobs' = Append(jobs, transactionId)
              /\ request' = [request EXCEPT ![r] =
                                Settled(f, "done", transactionId, None)]
    /\ UNCHANGED <<ledgerVars, clientVars, commonVars, wallets, locks, worker,
                   walletUpdates>>

\* The last segment of create when transactionQueue.add rejects: the record
\* and the index entry are already set, no job is added, and the error of the
\* queue leaves create
CreateEnqueueFails(r) ==
    LET f == request[r]
        transactionId == FreshTransactionId
    IN
    /\ f.pc = "validated"
    /\ transactions' = MapSet(transactions, transactionId,
                              NewTransaction(f.dto, f.userId))
    /\ idempotencyKeys' = MapSet(idempotencyKeys, f.dto.idempotencyKey, transactionId)
    /\ request' = [request EXCEPT ![r] =
                      Settled(f, "done", NoTransaction, "QueueError")]
    /\ UNCHANGED <<ledgerVars, clientVars, commonVars, wallets, locks, jobs, worker,
                   walletUpdates>>

\* create has settled: the caller gets the transaction or the error
CreateReturn(r) ==
    /\ request[r].pc = "done"
    /\ request' = [request EXCEPT ![r] = IdleRequest]
    /\ UNCHANGED <<ledgerVars, clientVars, commonVars, wallets, transactions, idempotencyKeys,
                   locks, jobs, worker, walletUpdates>>

\* ------------------------------------------------------------ wallet locks
\* Fault variant of acquireLocks: on a conflict for the toWallet lock the
\* fromWallet lock just set is kept
acquireLocksWithoutRollback(tx, id, held) ==
    LET fromKey == tx.fromWalletId
        toKey == tx.toWalletId
        afterFrom == IF fromKey # NoWallet /\ fromKey \notin DOMAIN held
                     THEN MapSet(held, fromKey, id)
                     ELSE held
    IN IF fromKey # NoWallet /\ fromKey \in DOMAIN held
       THEN [locks |-> held, err |-> "Wallet is locked"]
       ELSE IF toKey # NoWallet /\ toKey # fromKey
            THEN IF toKey \in DOMAIN afterFrom
                 THEN [locks |-> afterFrom, err |-> "Wallet is locked"]
                 ELSE [locks |-> MapSet(afterFrom, toKey, id), err |-> None]
            ELSE [locks |-> afterFrom, err |-> None]

\* acquireLocks(transaction): the lock table it leaves, and whether it throws
acquireLocks(tx, id, held) ==
    LET fromKey == tx.fromWalletId
        toKey == tx.toWalletId
        afterFrom == IF fromKey # NoWallet /\ fromKey \notin DOMAIN held
                     THEN MapSet(held, fromKey, id)
                     ELSE held
    IN IF fromKey # NoWallet /\ fromKey \in DOMAIN held
       THEN [locks |-> held, err |-> "Wallet is locked"]
       ELSE IF toKey # NoWallet /\ toKey # fromKey
            THEN IF toKey \in DOMAIN afterFrom
                 THEN [locks |-> IF fromKey # NoWallet
                                 THEN [k \in DOMAIN afterFrom \ {fromKey} |-> afterFrom[k]]
                                 ELSE afterFrom,
                       err |-> "Wallet is locked"]
                 ELSE [locks |-> MapSet(afterFrom, toKey, id), err |-> None]
            ELSE [locks |-> afterFrom, err |-> None]

\* Fault variant of releaseLocks: only the fromWallet lock is deleted
releaseLocksOfFromWalletOnly(tx, held) ==
    [k \in DOMAIN held \ {tx.fromWalletId} |-> held[k]]

\* releaseLocks(transaction): the lock table without the keys of both wallets
releaseLocks(tx, held) ==
    [k \in DOMAIN held \ {tx.fromWalletId, tx.toWalletId} |-> held[k]]

\* -------------------------------------------------------- processTransaction
WalletAccount(w) == "wallet-" \o ToString(w)

\* the entries of the first createTransaction of the handler of tx.type
PrincipalEntries(tx) ==
    CASE tx.type = "DEPOSIT" ->
            <<[accountId |-> WalletAccount(tx.toWalletId), type |-> "CREDIT",
               amount |-> tx.amount],
              [accountId |-> "bank-clearing", type |-> "DEBIT", amount |-> tx.amount]>>
      [] tx.type = "WITHDRAWAL" ->
            <<[accountId |-> WalletAccount(tx.fromWalletId), type |-> "DEBIT",
               amount |-> tx.amount],
              [accountId |-> "bank-clearing", type |-> "CREDIT", amount |-> tx.amount]>>
      [] tx.type = "TRANSFER" ->
            <<[accountId |-> WalletAccount(tx.fromWalletId), type |-> "DEBIT",
               amount |-> tx.amount],
              [accountId |-> WalletAccount(tx.toWalletId), type |-> "CREDIT",
               amount |-> tx.amount]>>

\* the entries of the fee posting
FeeEntries(tx) ==
    <<[accountId |-> WalletAccount(IF tx.type = "DEPOSIT" THEN tx.toWalletId
                                   ELSE tx.fromWalletId),
       type |-> "DEBIT", amount |-> tx.fee],
      [accountId |-> "fee-revenue", type |-> "CREDIT", amount |-> tx.fee]>>

\* `${transaction.idempotencyKey}-fee`
FeeKey(key) == key \o "-fee"

\* worker[w].pc: idle; found: awaiting findOne; acquiring: awaiting acquireLocks,
\* which returned; rejected: awaiting a call that threw (err); updatedFrom:
\* in processTransfer, awaiting the first updateBalance; updated: in a handler,
\* awaiting its last updateBalance; principal / fee: in a handler, awaiting
\* createTransaction of the ledger; handled: awaiting the handler, which
\* returned; returned: processTransaction settled, its await of releaseLocks
\* included
\* raised: the processTransaction call ended by throwing to its caller
IdleWorker == [pc |-> "idle", tx |-> NoTransaction, err |-> None, raised |-> FALSE]

\* Fault variants of AlreadyProcessed: a FAILED transaction is processed again
\* (a retry), and only a COMPLETED transaction counts as processed
AlreadyProcessedUnlessFailed(tx) == tx.status \notin {"PENDING", "FAILED"}
AlreadyCompleted(tx) == tx.status = "COMPLETED"

\* the guard of processTransaction: it goes on only for a PENDING transaction
AlreadyProcessed(tx) == tx.status # "PENDING"

\* A 'process-transaction' job is delivered: handleProcessTransaction calls
\* processTransaction, which calls findOne
WorkerDeliver(w, j) ==
    /\ worker[w].pc = "idle"
    /\ SlotInOrder(worker, w, WorkerOrder)
    /\ j \in 1..Len(jobs)
    /\ worker' = [worker EXCEPT ![w] = [IdleWorker EXCEPT !.pc = "found", !.tx = jobs[j]]]
    /\ UNCHANGED <<ledgerVars, clientVars, commonVars, wallets, transactions, idempotencyKeys,
                   locks, jobs, request, walletUpdates>>

\* Fault variant of CatchAndRelease: a try/finally without the catch, so that
\* the locks are released and the error leaves processTransaction
CatchAndReleaseWithoutCatch(w, message) ==
    LET id == worker[w].tx IN
    /\ UNCHANGED transactions
    /\ locks' = releaseLocks(transactions[id], locks)
    /\ worker' = [worker EXCEPT ![w].pc = "returned", ![w].err = message,
                                ![w].raised = TRUE]

\* The catch and the finally of processTransaction
CatchAndRelease(w, message) ==
    LET id == worker[w].tx IN
    /\ transactions' = [transactions EXCEPT ![id].status = "FAILED",
                                            ![id].errorMessage = message,
                                            ![id].updatedAt = @ + 1]
    /\ locks' = releaseLocks(transactions[id], locks)
    /\ worker' = [worker EXCEPT ![w].pc = "returned", ![w].err = message]

\* "Mark as completed" and the finally of processTransaction
CompleteAndRelease(w) ==
    LET id == worker[w].tx IN
    /\ transactions' = [transactions EXCEPT ![id].status = "COMPLETED",
                                            ![id].completedAt = TRUE,
                                            ![id].updatedAt = @ + 1]
    /\ locks' = releaseLocks(transactions[id], locks)
    /\ worker' = [worker EXCEPT ![w].pc = "returned"]

\* A handler calls walletsService.updateBalance(id, amount) and awaits it
UpdateBalanceCall(w, id, amount, nextPc) ==
    LET r == updateBalance(wallets, id, amount) IN
    /\ wallets' = r.wallets
    /\ IF r.err = None
       THEN /\ worker' = [worker EXCEPT ![w].pc = nextPc]
            /\ walletUpdates' = [walletUpdates EXCEPT ![worker[w].tx] =
                                    Append(@, <<id, amount>>)]
       ELSE /\ worker' = [worker EXCEPT ![w].pc = "rejected", ![w].err = r.err]
            /\ UNCHANGED walletUpdates

\* One segment of a processTransaction call in flight
WorkerStep(w) ==
    LET f == worker[w]
        tx == transactions[f.tx]
    IN
    /\ f.pc \in {"found", "acquiring", "rejected", "updatedFrom", "updated",
                 "handled"}
    /\ CASE f.pc = "found" ->
              IF AlreadyProcessed(tx)
              THEN /\ worker' = [worker EXCEPT ![w].pc = "returned"]
                   /\ UNCHANGED <<transactions, locks, wallets, walletUpdates,
                                  ledgerVars>>
              ELSE LET r == acquireLocks(tx, f.tx, locks) IN
                   /\ transactions' = [transactions EXCEPT ![f.tx].status = "PROCESSING",
                                                           ![f.tx].updatedAt = @ + 1]
                   /\ locks' = r.locks
                   /\ worker' = [worker EXCEPT
                                    ![w].pc = IF r.err = None THEN "acquiring"
                                              ELSE "rejected",
                                    ![w].err = r.err]
                   /\ UNCHANGED <<wallets, walletUpdates, ledgerVars>>
         [] f.pc = "acquiring" ->
              /\ CASE tx.type = "DEPOSIT" ->
                        UpdateBalanceCall(w, tx.toWalletId, tx.amount, "updated")
                   [] tx.type = "WITHDRAWAL" ->
                        UpdateBalanceCall(w, tx.fromWalletId, -(tx.amount + tx.fee),
                                          "updated")
                   [] tx.type = "TRANSFER" ->
                        UpdateBalanceCall(w, tx.fromWalletId, -(tx.amount + tx.fee),
                                          "updatedFrom")
                   [] tx.type = "TRADE" ->
                        /\ worker' = [worker EXCEPT ![w].pc = "handled"]
                        /\ UNCHANGED <<wallets, walletUpdates>>
              /\ UNCHANGED <<transactions, locks, ledgerVars>>
         [] f.pc = "updatedFrom" ->
              /\ UpdateBalanceCall(w, tx.toWalletId, tx.amount, "updated")
              /\ UNCHANGED <<transactions, locks, ledgerVars>>
         [] f.pc = "updated" ->
              /\ LedgerCreateTransactionCall(w, tx.idempotencyKey, PrincipalEntries(tx))
              /\ worker' = [worker EXCEPT ![w].pc = "principal"]
              /\ UNCHANGED <<transactions, locks, wallets, walletUpdates>>
         [] f.pc = "rejected" ->
              /\ CatchAndRelease(w, f.err)
              /\ UNCHANGED <<wallets, walletUpdates, ledgerVars>>
         [] f.pc = "handled" ->
              /\ CompleteAndRelease(w)
              /\ UNCHANGED <<wallets, walletUpdates, ledgerVars>>
    /\ UNCHANGED <<clientVars, commonVars, idempotencyKeys, jobs, request>>

\* processTransaction has returned to handleProcessTransaction: the job is done
WorkerReturn(w) ==
    /\ worker[w].pc = "returned"
    /\ worker' = [worker EXCEPT ![w] = IdleWorker]
    /\ UNCHANGED <<ledgerVars, clientVars, commonVars, wallets, transactions, idempotencyKeys,
                   locks, jobs, request, walletUpdates>>

\* A segment of the createTransaction call of a handler, or the handler
\* resumed with the call settled
WorkerLedgerStep(w) ==
    LET f == worker[w]
        tx == transactions[f.tx]
    IN
    /\ f.pc \in {"principal", "fee"}
    /\ IF lcall[w].pc # "done"
       THEN /\ LedgerStep(w)
            /\ UNCHANGED <<worker, transactions, locks>>
       ELSE /\ UNCHANGED <<ledgerAccounts, ledgerEntries, ledgerTransactions,
                           ledgerIdempotencyKeys, ledgerLocks>>
            /\ IF lcall[w].err # None
               THEN /\ CatchAndRelease(w, lcall[w].err)
                    /\ lcall' = [lcall EXCEPT ![w] = IdleCall]
               ELSE IF f.pc = "principal" /\ tx.fee > 0
                    THEN /\ LedgerCreateTransactionCall(w, FeeKey(tx.idempotencyKey),
                                                        FeeEntries(tx))
                         /\ worker' = [worker EXCEPT ![w].pc = "fee"]
                         /\ UNCHANGED <<transactions, locks>>
                    ELSE /\ CompleteAndRelease(w)
                         /\ lcall' = [lcall EXCEPT ![w] = IdleCall]
    /\ UNCHANGED <<clientVars, commonVars, wallets, idempotencyKeys, jobs, request,
                   walletUpdates>>

\* ------------------------------------------------------------------- cancel
\* Fault variants of CancelError: cancel without the status check, and cancel
\* without the ownership check
CancelErrorWithoutStatusCheck(id, userId) ==
    IF id \notin DOMAIN transactions THEN "Transaction not found"
    ELSE IF transactions[id].userId # userId
         THEN "Cannot cancel transaction of another user"
         ELSE None
CancelErrorWithoutOwnerCheck(id, userId) ==
    IF id \notin DOMAIN transactions THEN "Transaction not found"
    ELSE IF transactions[id].status # "PENDING"
         THEN "Cannot cancel transaction in this status"
         ELSE None

\* what cancel(id, userId) throws
CancelError(id, userId) ==
    IF id \notin DOMAIN transactions THEN "Transaction not found"
    ELSE IF transactions[id].userId # userId
         THEN "Cannot cancel transaction of another user"
         ELSE IF transactions[id].status # "PENDING"
              THEN "Cannot cancel transaction in this status"
              ELSE None

\* userId arguments of cancel: the users that own wallets and one that owns none
Callers == 1..(NumUsers + 1)

\* cancel(id, userId) that throws: both throws come before every write
CancelRejected(id, userId) ==
    /\ CancelError(id, userId) # None
    /\ UNCHANGED vars

\* cancel(id, userId) that does not throw
Cancel(id, userId) ==
    /\ CancelError(id, userId) = None
    /\ transactions' = [transactions EXCEPT ![id].status = "CANCELLED",
                                            ![id].cancelledAt = TRUE,
                                            ![id].updatedAt = @ + 1]
    /\ locks' = releaseLocks(transactions[id], locks)
    /\ UNCHANGED <<ledgerVars, clientVars, commonVars, wallets, idempotencyKeys, jobs, request,
                   worker, walletUpdates>>

\* ------------------------------------------------------------ specifications
\* ------------------------------------------------------- SecurityService
Identifiers == 1..NumIdentifiers

\* checkIPReputation(ip): passed is false exactly for the flagged identifiers
checkIPReputation(ip) ==
    IF ip \in suspiciousIPs
    THEN [passed |-> FALSE, riskLevel |-> "HIGH"]
    ELSE [passed |-> TRUE, riskLevel |-> "LOW"]

\* recordFailedAttempt(identifier): the counter (absent reads as 0) goes up by
\* one, the identifier is flagged when it reaches the threshold, and a timer
\* that deletes the counter is set by every call
RecordFailedAttempt(identifier) ==
    LET attempts == failedAttempts[identifier] + 1 IN
    /\ attemptCalls < MaxAttempts
    /\ attemptCalls' = attemptCalls + 1
    /\ failedAttempts' = [failedAttempts EXCEPT ![identifier] = attempts]
    /\ suspiciousIPs' = IF attempts >= BlockThreshold
                        THEN suspiciousIPs \cup {identifier}
                        ELSE suspiciousIPs
    /\ timers' = Append(timers, [identifier |-> identifier,
                                 due |-> time + ResetDelay])
    /\ attemptLog' = [attemptLog EXCEPT ![identifier] = Append(@, time)]
    /\ UNCHANGED <<time, ledgerVars, clientVars, engineVars,
                   retryVars, rateVars>>

\* The callback of a timer that is due runs: this.failedAttempts.delete(identifier).
\* The timers all have the same delay, so they fall due in the order they were set.
ResetTimerFires ==
    /\ timers # <<>>
    /\ Head(timers).due <= time
    /\ failedAttempts' = [failedAttempts EXCEPT ![Head(timers).identifier] = 0]
    /\ timers' = Tail(timers)
    /\ UNCHANGED <<suspiciousIPs, time, attemptCalls, attemptLog,
                   ledgerVars, clientVars, engineVars,
                   retryVars, rateVars>>

\* clearFailedAttempts(identifier)
ClearFailedAttempts(identifier) ==
    /\ failedAttempts' = [failedAttempts EXCEPT ![identifier] = 0]
    /\ attemptLog' = [attemptLog EXCEPT ![identifier] = <<>>]
    /\ UNCHANGED <<suspiciousIPs, timers, time, attemptCalls,
                   ledgerVars, clientVars, engineVars,
                   retryVars, rateVars>>

\* Time passes; a timer runs when it falls due, before the clock moves on
Tick ==
    /\ time < MaxTime
    /\ IF timers = <<>> THEN TRUE ELSE Head(timers).due > time
    /\ time' = time + 1
    /\ UNCHANGED <<suspiciousIPs, failedAttempts, timers, attemptCalls, attemptLog,
                   ledgerVars, clientVars, engineVars,
                   retryVars, rateVars>>

\* -------------------------------------------------------------- RetryUtil
\* The configs executeWithRetry is called with.  Delays are in units of 500 ms;
\* filtered says whether retryableErrors is set.
RetryConfigs ==
    [maxRetries : 0..MaxRetryConfig, initialDelayMs : {2}, maxDelayMs : {5},
     backoffMultiplier : {2}, filtered : BOOLEAN]

\* How an invocation of fn settles: it resolves ("ok") or rejects with an error
\* whose message includes one of retryableErrors ("retryable"), is not empty
\* and includes none of them ("other"), or is empty or absent ("nomessage")
FnOutcomes == {"ok", "retryable", "other", "nomessage"}

\* Math.random() * 1000, in units of 500 ms
JitterSteps == {0, 1}

NoError == [kind |-> None, of |-> 0]

\* retry.pc: idle; calling: awaiting fn(); sleeping: awaiting this.sleep(delay);
\* returned / thrown: executeWithRetry settled
IdleRetry == [pc |-> "idle", config |-> [maxRetries |-> 0, initialDelayMs |-> 0,
                                         maxDelayMs |-> 0, backoffMultiplier |-> 0,
                                         filtered |-> FALSE],
              attempt |-> 0, delay |-> 0, calls |-> 0, sleeps |-> 0,
              lastError |-> NoError, thrown |-> NoError]

\* executeWithRetry(fn, config) up to its first await: attempt 0 invokes fn
RetryCall(config) ==
    /\ retry.pc = "idle"
    /\ retry' = [IdleRetry EXCEPT !.pc = "calling", !.config = config,
                                  !.delay = config.initialDelayMs, !.calls = 1]
    /\ UNCHANGED <<ledgerVars, clientVars, engineVars, securityVars, rateVars>>

\* if (config.retryableErrors && error.message) { ... if (!isRetryable) throw }
NotRetryable(config, outcome) == config.filtered /\ outcome = "other"

\* Fault variant of RetryAttemptSettles: the loop sleeps after every failed
\* attempt, the last one included
RetryAttemptSettlesAlwaysSleeping(outcome) ==
    LET error == [kind |-> outcome, of |-> retry.calls] IN
    /\ retry.pc = "calling"
    /\ retry' =
          IF outcome = "ok"
          THEN [retry EXCEPT !.pc = "returned"]
          ELSE IF NotRetryable(retry.config, outcome)
               THEN [retry EXCEPT !.pc = "thrown", !.lastError = error,
                                  !.thrown = error]
               ELSE IF retry.attempt <= retry.config.maxRetries
                    THEN [retry EXCEPT !.pc = "sleeping", !.lastError = error,
                                       !.sleeps = @ + 1]
                    ELSE [retry EXCEPT !.pc = "thrown", !.lastError = error,
                                       !.thrown = error]
    /\ UNCHANGED <<ledgerVars, clientVars, engineVars, securityVars, rateVars>>

\* The fn() invoked by the current attempt settles: the try returns its result,
\* or the catch rethrows the error, sleeps before the next attempt, or leaves
\* the loop after the last attempt, which throws lastError
RetryAttemptSettles(outcome) ==
    LET error == [kind |-> outcome, of |-> retry.calls] IN
    /\ retry.pc = "calling"
    /\ retry' =
          IF outcome = "ok"
          THEN [retry EXCEPT !.pc = "returned"]
          ELSE IF NotRetryable(retry.config, outcome)
               THEN [retry EXCEPT !.pc = "thrown", !.lastError = error,
                                  !.thrown = error]
               ELSE IF retry.attempt < retry.config.maxRetries
                    THEN [retry EXCEPT !.pc = "sleeping", !.lastError = error,
                                       !.sleeps = @ + 1]
                    ELSE [retry EXCEPT !.pc = "thrown", !.lastError = error,
                                       !.thrown = error]
    /\ UNCHANGED <<ledgerVars, clientVars, engineVars, securityVars, rateVars>>

\* Math.min(a, b)
Min(a, b) == IF a < b THEN a ELSE b

\* The sleep ends: the delay is backed off with jitter and capped, attempt++,
\* and the next attempt invokes fn if the loop goes on
RetrySleepEnds(jitter) ==
    /\ retry.pc = "sleeping"
    /\ LET slept == [retry EXCEPT
                        !.delay = Min(retry.delay * retry.config.backoffMultiplier
                                          + jitter,
                                      retry.config.maxDelayMs),
                        !.attempt = @ + 1]
       IN retry' = IF slept.attempt <= retry.config.maxRetries
                   THEN [slept EXCEPT !.pc = "calling", !.calls = @ + 1]
                   ELSE [slept EXCEPT !.pc = "thrown", !.thrown = retry.lastError]
    /\ UNCHANGED <<ledgerVars, clientVars, engineVars, securityVars, rateVars>>

\* The caller has the result or the error of executeWithRetry
RetryDone ==
    /\ retry.pc \in {"returned", "thrown"}
    /\ retry' = IdleRetry
    /\ UNCHANGED <<ledgerVars, clientVars, engineVars, securityVars, rateVars>>

\* ------------------------------------------------------------ RateLimiter
RateKeys == {"ka", "kb"}

\* the config the callers pass
RateConfig == [requestsPerSecond |-> RequestsPerSecond,
               requestsPerMinute |-> RequestsPerMinute]

\* requests.filter((req) => now - req.timestamp < windowMs)
Within(requests, now, windowMs) ==
    LET Recent(timestamp) == now - timestamp < windowMs
    IN SelectSeq(requests, Recent)

\* Fault variant of checkRateLimit: the limits compared with > instead of >=
checkRateLimitOffByOne(requests, now, config) ==
    LET recentRequests == Within(requests, now, OneMinute)
        lastSecond == Within(recentRequests, now, OneSecond)
    IN IF Len(lastSecond) > config.requestsPerSecond
       THEN [allowed |-> FALSE,
             retryAfter |-> IF lastSecond # <<>>
                            THEN OneSecond - (now - lastSecond[1])
                            ELSE OneSecond,
             requests |-> requests]
       ELSE IF Len(recentRequests) > config.requestsPerMinute
            THEN [allowed |-> FALSE,
                  retryAfter |-> IF recentRequests # <<>>
                                 THEN OneMinute - (now - recentRequests[1])
                                 ELSE OneMinute,
                  requests |-> requests]
            ELSE [allowed |-> TRUE, retryAfter |-> 0,
                  requests |-> Append(recentRequests, now)]

\* checkRateLimit(key, config) on the timestamps recorded for the key: the
\* answer and the timestamps it leaves recorded (retryAfter 0: undefined)
checkRateLimit(requests, now, config) ==
    LET recentRequests == Within(requests, now, OneMinute)
        lastSecond == Within(recentRequests, now, OneSecond)
    IN IF Len(lastSecond) >= config.requestsPerSecond
       THEN [allowed |-> FALSE,
             retryAfter |-> IF lastSecond # <<>>
                            THEN OneSecond - (now - lastSecond[1])
                            ELSE OneSecond,
             requests |-> requests]
       ELSE IF Len(recentRequests) >= config.requestsPerMinute
            THEN [allowed |-> FALSE,
                  retryAfter |-> IF recentRequests # <<>>
                                 THEN OneMinute - (now - recentRequests[1])
                                 ELSE OneMinute,
                  requests |-> requests]
            ELSE [allowed |-> TRUE, retryAfter |-> 0,
                  requests |-> Append(recentRequests, now)]

\* A checkRateLimit call: Date.now() is the clock
CheckRateLimit(key) ==
    LET r == checkRateLimit(rateRequests[key], rateNow, RateConfig) IN
    /\ rateRequests' = [rateRequests EXCEPT ![key] = r.requests]
    /\ rateAnswer' = [key |-> key, allowed |-> r.allowed, retryAfter |-> r.retryAfter]
    /\ rateAllowed' = IF r.allowed
                      THEN [rateAllowed EXCEPT ![key] = Append(@, rateNow)]
                      ELSE rateAllowed
    /\ UNCHANGED <<rateNow, ledgerVars, clientVars, engineVars, securityVars, retryVars>>

\* The readings of Date.now(): the first ticks, and the ticks around the
\* end of the minute that started with them
ClockValues ==
    (0..MaxOffset) \cup {OneMinute - OneSecond + o : o \in 0..MaxOffset}

\* The clock moves on to a later reading
RateClockAdvance(t) ==
    /\ t > rateNow
    /\ rateNow' = t
    /\ UNCHANGED <<rateRequests, rateAnswer, rateAllowed,
                   ledgerVars, clientVars, engineVars, securityVars, retryVars>>

InitLedger ==
    /\ ledgerAccounts = NoMap
    /\ ledgerEntries = <<>>
    /\ ledgerTransactions = NoMap
    /\ ledgerIdempotencyKeys = NoMap
    /\ ledgerLocks = {}
    /\ lcall = [p \in LedgerCallers |-> IdleCall]
    /\ client = [p \in LedgerClients |-> IdleClient]
    /\ postings = 0
    /\ clock = 0

\* the balance updateBalance has given wallet w before the first request
InitialBalance(w) == IF w = 1 THEN MaxBalance ELSE 0

\* The services as constructed, with the wallets created and funded
InitEngine ==
    /\ wallets = [w \in WalletIds |->
                     [userId |-> WalletOwner(w), balance |-> InitialBalance(w)]]
    /\ transactions = NoMap
    /\ idempotencyKeys = NoMap
    /\ locks = NoMap
    /\ jobs = <<>>
    /\ request = [r \in RequestSlots |-> IdleRequest]
    /\ worker = [w \in Workers |-> IdleWorker]
    /\ walletUpdates = [id \in 1..MaxTransactions |-> <<>>]

\* new Set(), new Map(): nothing flagged, no counter, no timer
InitSecurity ==
    /\ suspiciousIPs = {}
    /\ failedAttempts = [i \in Identifiers |-> 0]
    /\ timers = <<>>
    /\ time = 0
    /\ attemptCalls = 0
    /\ attemptLog = [i \in Identifiers |-> <<>>]

InitRetry == retry = IdleRetry

\* new Map(): no timestamp recorded, no call answered
InitRate ==
    /\ rateRequests = [k \in RateKeys |-> <<>>]
    /\ rateNow = 0
    /\ rateAnswer = [key |-> None, allowed |-> TRUE, retryAfter |-> 0]
    /\ rateAllowed = [k \in RateKeys |-> <<>>]

Init == InitLedger /\ InitEngine /\ InitSecurity /\ InitRetry /\ InitRate

\* The ledger used through its own interface by one client
NextLedger ==
    \/ \E type \in LedgerTypeKinds : CreateAccount(type)
    \/ \E p \in SequentialClients, key \in LedgerKeys, es \in EntryGroups :
          ClientCreateTransaction(p, key, es)
    \/ \E p \in SequentialClients : ClientLedgerStep(p)
    \/ \E p \in SequentialClients : ClientCreateReturn(p)
    \/ \E p \in SequentialClients, id \in 1..MaxPostings : ClientReverseCall(p, id)
    \/ \E p \in SequentialClients, now \in 0..MaxClock : ClientReversePost(p, now)
    \/ \E p \in SequentialClients : ClientReverseReturn(p)

SpecLedger == Init /\ [][NextLedger]_vars

\* The transaction engine: API requests, queue workers and cancels
Next ==
    \/ \E r \in SequentialSlots, dto \in Requests \cup InvalidRequests, u \in Users :
          CreateCall(r, dto, u)
    \/ \E r \in SequentialSlots : CreateStep(r)
    \/ \E r \in SequentialSlots : CreateReturn(r)
    \/ \E w \in Workers, j \in 1..MaxTransactions : WorkerDeliver(w, j)
    \/ \E w \in Workers : WorkerStep(w)
    \/ \E w \in Workers : WorkerLedgerStep(w)
    \/ \E w \in Workers : WorkerReturn(w)
    \/ \E id \in 1..MaxTransactions, u \in Callers : Cancel(id, u)
    \/ \E id \in 1..MaxTransactions, u \in Callers : CancelRejected(id, u)

Spec == Init /\ [][Next]_vars

\* The creation path alone: API requests that overlap, and cancels
NextCreate ==
    \/ \E r \in RequestSlots, dto \in Requests \cup InvalidRequests, u \in Users :
          CreateCall(r, dto, u)
    \/ \E r \in RequestSlots : CreateStep(r)
    \/ \E r \in RequestSlots : CreateReturn(r)
    \/ \E id \in 1..MaxTransactions, u \in Callers : Cancel(id, u)
    \/ \E id \in 1..MaxTransactions, u \in Callers : CancelRejected(id, u)

SpecCreate == Init /\ [][NextCreate]_vars

\* The groups the clients of SpecLedgerConcurrent post: one entry of the
\* smallest amount, or a debit of one account against a credit of another
ConcurrentGroups ==
    {<<[accountId |-> a, type |-> t, amount |-> 1]>> :
        a \in AccountIds, t \in LedgerEntryTypes}
    \cup
    {<<[accountId |-> a[1], type |-> "DEBIT", amount |-> 1],
       [accountId |-> a[2], type |-> "CREDIT", amount |-> 1]>> :
        a \in {x \in AccountIds \X AccountIds : x[1] # x[2]}}

\* The ledger used by clients whose createTransaction calls overlap
NextLedgerConcurrent ==
    \/ \E type \in {"ASSET", "LIABILITY"} : CreateAccount(type)
    \/ \E p \in LedgerClients, key \in LedgerKeys, es \in ConcurrentGroups :
          ClientCreateTransaction(p, key, es)
    \/ \E p \in LedgerClients : ClientLedgerStep(p)
    \/ \E p \in LedgerClients : ClientCreateReturn(p)

SpecLedgerConcurrent == Init /\ [][NextLedgerConcurrent]_vars

\* The ledger with one client that posts and two whose reverseTransaction
\* calls overlap
NextReverse ==
    \/ \E type \in {"ASSET", "LIABILITY"} : CreateAccount(type)
    \/ \E p \in SequentialClients, key \in LedgerKeys, es \in ConcurrentGroups :
          ClientCreateTransaction(p, key, es)
    \/ \E p \in LedgerClients : ClientLedgerStep(p)
    \/ \E p \in SequentialClients : ClientCreateReturn(p)
    \/ \E p \in LedgerClients, id \in 1..MaxPostings :
          ClientReverseCallWithin(p, id, MaxLedgerCalls)
    \/ \E p \in LedgerClients, now \in 0..MaxClock : ClientReversePost(p, now)
    \/ \E p \in LedgerClients : ClientReverseReturn(p)

SpecReverse == Init /\ [][NextReverse]_vars

\* The requests of SpecLive: one of each kind, without fee
LiveRequests ==
    {dto \in Requests :
        /\ dto.fee = 0
        /\ dto.type = "WITHDRAWAL" => dto.fromWalletId = 1
        /\ dto.type = "TRANSFER" => dto.fromWalletId = 1}

\* The engine of Spec with the requests of SpecLive
NextLive ==
    \/ \E r \in SequentialSlots, dto \in LiveRequests, u \in Users : CreateCall(r, dto, u)
    \/ \E r \in SequentialSlots : CreateStep(r)
    \/ \E r \in SequentialSlots : CreateReturn(r)
    \/ \E w \in Workers, j \in 1..MaxTransactions : WorkerDeliver(w, j)
    \/ \E w \in Workers : WorkerStep(w)
    \/ \E w \in Workers : WorkerLedgerStep(w)
    \/ \E w \in Workers : WorkerReturn(w)
    \/ \E id \in 1..MaxTransactions, u \in Callers : Cancel(id, u)
    \/ \E id \in 1..MaxTransactions, u \in Callers : CancelRejected(id, u)

\* The event loop resumes every call whose awaited promise has settled: a
\* processTransaction call in flight always gets its next segment
SpecLive ==
    /\ Init
    /\ [][NextLive]_vars
    /\ \A w \in Workers : WF_vars(WorkerStep(w)) /\ WF_vars(WorkerLedgerStep(w))

\* A wallet id no wallet has
UnknownWallet == NumWallets + 1

\* Every shape of create request: each type with each combination of wallet
\* fields (absent, a wallet, a wallet that does not exist), amounts from 0
AnyRequests ==
    [idempotencyKey : Keys, type : TransactionTypes, amount : 0..MaxTxAmount,
     fee : 0..MaxFee,
     fromWalletId : {NoWallet} \cup WalletIds \cup {UnknownWallet},
     toWalletId : {NoWallet} \cup WalletIds \cup {UnknownWallet}]

\* PATCH wallets/:id/balance: walletsService.updateBalance called directly
WalletUpdateBalance(id, amount) ==
    LET r == updateBalance(wallets, id, amount) IN
    /\ r.err = None
    /\ r.wallets[id].balance <= MaxBalance
    /\ wallets' = r.wallets
    /\ UNCHANGED <<ledgerVars, clientVars, commonVars, transactions, idempotencyKeys, locks, jobs,
                   request, worker, walletUpdates>>

\* The wallets whose balance is moved directly: the funded ones
UpdatedWallets == {w \in WalletIds : InitialBalance(w) > 0}

\* The creation path under every request shape and caller, with a wallet
\* balance that moves while requests are validated
NextValidate ==
    \/ \E r \in SequentialSlots, dto \in AnyRequests, u \in Callers : CreateCall(r, dto, u)
    \/ \E r \in SequentialSlots : CreateStep(r)
    \/ \E r \in SequentialSlots : CreateReturn(r)
    \/ \E id \in UpdatedWallets, amount \in {-1, 1} : WalletUpdateBalance(id, amount)

SpecValidate == Init /\ [][NextValidate]_vars

\* The engine with a queue that may reject a job: the requests of Spec, one
\* after the other, and the workers
NextEnqueue ==
    \/ \E r \in SequentialSlots, dto \in Requests, u \in Users : CreateCall(r, dto, u)
    \/ \E r \in SequentialSlots : CreateStep(r)
    \/ \E r \in SequentialSlots : CreateEnqueueFails(r)
    \/ \E r \in SequentialSlots : CreateReturn(r)
    \/ \E w \in Workers, j \in 1..MaxTransactions : WorkerDeliver(w, j)
    \/ \E w \in Workers : WorkerStep(w)
    \/ \E w \in Workers : WorkerLedgerStep(w)
    \/ \E w \in Workers : WorkerReturn(w)

SpecEnqueue == Init /\ [][NextEnqueue]_vars

\* Requests of clients that choose their idempotency keys freely: one key is
\* another key followed by "-fee"
SuffixedKeyRequests ==
    {[idempotencyKey |-> k, type |-> "DEPOSIT", amount |-> 1, fee |-> 1,
      fromWalletId |-> NoWallet, toWalletId |-> 1] : k \in {Key(1), FeeKey(Key(1))}}
    \cup
    {[idempotencyKey |-> k, type |-> "WITHDRAWAL", amount |-> 1, fee |-> 1,
      fromWalletId |-> 1, toWalletId |-> NoWallet] : k \in {Key(1), FeeKey(Key(1))}}

\* The engine with these requests, one after the other, and the workers
NextKeys ==
    \/ \E r \in SequentialSlots, dto \in SuffixedKeyRequests, u \in Users :
          CreateCall(r, dto, u)
    \/ \E r \in SequentialSlots : CreateStep(r)
    \/ \E r \in SequentialSlots : CreateReturn(r)
    \/ \E w \in Workers, j \in 1..MaxTransactions : WorkerDeliver(w, j)
    \/ \E w \in Workers : WorkerStep(w)
    \/ \E w \in Workers : WorkerLedgerStep(w)
    \/ \E w \in Workers : WorkerReturn(w)

SpecKeys == Init /\ [][NextKeys]_vars

\* executeWithRetry calls, one at a time.  An fn that was invoked settles and
\* a timer that was set fires: the steps of a call in flight are weakly fair.
NextRetry ==
    \/ \E config \in RetryConfigs : RetryCall(config)
    \/ \E outcome \in FnOutcomes : RetryAttemptSettles(outcome)
    \/ \E jitter \in JitterSteps : RetrySleepEnds(jitter)
    \/ RetryDone

SpecRetry ==
    /\ Init
    /\ [][NextRetry]_vars
    /\ WF_vars(\E outcome \in FnOutcomes : RetryAttemptSettles(outcome))
    /\ WF_vars(\E jitter \in JitterSteps : RetrySleepEnds(jitter))

\* The RateLimiter: checkRateLimit calls for the keys as the clock moves on
NextRate ==
    \/ \E key \in RateKeys : CheckRateLimit(key)
    \/ \E t \in ClockValues : RateClockAdvance(t)

SpecRate == Init /\ [][NextRate]_vars

\* The SecurityService: failed attempts, clears and reset timers in any order
NextSecurity ==
    \/ \E identifier \in Identifiers : RecordFailedAttempt(identifier)
    \/ \E identifier \in Identifiers : ClearFailedAttempts(identifier)
    \/ ResetTimerFires
    \/ Tick

SpecSecurity == Init /\ [][NextSecurity]_vars

\* ---------------------------------------------------------------- properties
\* the transactions in PROCESSING that reference wallet w
ProcessingOn(w) ==
    {id \in DOMAIN transactions :
        /\ transactions[id].status = "PROCESSING"
        /\ w \in {transactions[id].fromWalletId, transactions[id].toWalletId}}

\* C1 (Spec): per-wallet mutual exclusion.  In every reachable state, for every
\* wallet, at most one transaction that references it as fromWalletId or
\* toWalletId has status PROCESSING.
C1_WalletMutualExclusion ==
    \A w \in WalletIds : Cardinality(ProcessingOn(w)) <= 1

\* the stored transactions of an idempotency key, and the jobs enqueued for them
TransactionsOfKey(k) ==
    {id \in DOMAIN transactions : transactions[id].idempotencyKey = k}
JobsOfKey(k) ==
    {j \in 1..Len(jobs) : transactions[jobs[j]].idempotencyKey = k}

\* C2 (SpecCreate): at-most-once creation under concurrency.  For every
\* idempotency key, whatever the interleaving of the create calls that carry
\* it, at most one Transaction record exists, at most one process-transaction
\* job is enqueued, and the calls that have returned a transaction returned
\* the same id.
C2_AtMostOnceCreation ==
    \A k \in Keys :
        /\ Cardinality(TransactionsOfKey(k)) <= 1
        /\ Cardinality(JobsOfKey(k)) <= 1
        /\ \A r1, r2 \in RequestSlots :
              (/\ request[r1].pc = "done" /\ request[r1].err = None
               /\ request[r2].pc = "done" /\ request[r2].err = None
               /\ request[r1].dto.idempotencyKey = k
               /\ request[r2].dto.idempotencyKey = k)
              => request[r1].result = request[r2].result

\* C3 (Spec): a duplicate create is a pure lookup.  A create call whose
\* idempotencyKey maps to a stored Transaction settles at once, returns that
\* transaction and throws nothing, and the step changes neither the
\* transactions, the idempotency index, the queue, the wallets, the wallet
\* locks nor the ledger, whatever the other fields of the request are.
C3_DuplicateCreateIsLookup ==
    [][\A r \in RequestSlots :
          LET key == request'[r].dto.idempotencyKey IN
          (/\ request[r].pc = "idle"
           /\ request'[r].pc # "idle"
           /\ key \in DOMAIN idempotencyKeys
           /\ idempotencyKeys[key] \in DOMAIN transactions)
          => /\ request'[r].pc = "done"
             /\ request'[r].result = idempotencyKeys[key]
             /\ request'[r].err = None
             /\ transactions' = transactions
             /\ idempotencyKeys' = idempotencyKeys
             /\ jobs' = jobs
             /\ wallets' = wallets
             /\ locks' = locks
             /\ ledgerVars' = ledgerVars]_vars

\* C3 happens: a duplicate create has returned the stored transaction while
\* that transaction is being processed under wallet locks
C3_Witness ==
    \E r \in RequestSlots :
        /\ request[r].pc = "done"
        /\ request[r].existing
        /\ transactions[request[r].result].status = "PROCESSING"
        /\ locks # NoMap

\* the recorded ledger transactions of an idempotency key
LedgerTransactionsOfKey(k) ==
    {l \in DOMAIN ledgerTransactions : ledgerTransactions[l].idempotencyKey = k}

\* no processTransaction call is in flight and no stored transaction waits
QueueDrained ==
    /\ \A w \in Workers : worker[w].pc = "idle"
    /\ \A id \in DOMAIN transactions :
          transactions[id].status \notin {"PENDING", "PROCESSING"}

\* C4 (Spec): create called twice with one idempotency key, then all queued
\* jobs processed: the second call returns the identity of the one stored
\* transaction of the key, and the ledger holds exactly one LedgerTransaction
\* for the request.  Stated for the requests that move money between wallets
\* and were not cancelled, with no other transaction in the system.
C4_CreateTwiceOneLedgerTransaction ==
    \A r \in RequestSlots :
        LET f == request[r]
            key == f.dto.idempotencyKey
        IN (/\ f.pc = "done"
            /\ f.existing
            /\ QueueDrained
            /\ DOMAIN transactions = {f.result}
            /\ transactions[f.result].type \in {"DEPOSIT", "WITHDRAWAL", "TRANSFER"}
            /\ transactions[f.result].status # "CANCELLED")
           => /\ TransactionsOfKey(key) = {f.result}
              /\ Cardinality(LedgerTransactionsOfKey(key)) = 1

\* the updateBalance calls the handler of tx.type makes, in order
ExpectedUpdates(tx) ==
    CASE tx.type = "DEPOSIT" -> << <<tx.toWalletId, tx.amount>> >>
      [] tx.type = "WITHDRAWAL" -> << <<tx.fromWalletId, -(tx.amount + tx.fee)>> >>
      [] tx.type = "TRANSFER" -> << <<tx.fromWalletId, -(tx.amount + tx.fee)>>,
                                    <<tx.toWalletId, tx.amount>> >>
      [] OTHER -> << >>

IsPrefix(s, t) == Len(s) <= Len(t) /\ \A i \in 1..Len(s) : s[i] = t[i]

RECURSIVE SumUpdates(_, _)
\* the sum of the deltas a sequence of updates gave wallet w
SumUpdates(us, w) ==
    IF us = << >> THEN 0
    ELSE (IF Head(us)[1] = w THEN Head(us)[2] ELSE 0) + SumUpdates(Tail(us), w)

RECURSIVE AppliedDeltas(_, _)
\* the sum of the deltas the transactions 1..n gave wallet w
AppliedDeltas(n, w) ==
    IF n = 0 THEN 0 ELSE SumUpdates(walletUpdates[n], w) + AppliedDeltas(n - 1, w)

\* C5 (Spec): no double application under at-least-once delivery.  However
\* often and however interleaved processTransaction runs for a transaction,
\* the balance updates made for it are a prefix of the one list its handler
\* makes, every wallet balance is its initial balance plus those updates, and
\* the ledger records at most one posting per posting key of the transaction.
C5_AppliedAtMostOnce ==
    /\ \A id \in DOMAIN transactions :
          /\ IsPrefix(walletUpdates[id], ExpectedUpdates(transactions[id]))
          /\ Cardinality(LedgerTransactionsOfKey(transactions[id].idempotencyKey)) <= 1
          /\ Cardinality(LedgerTransactionsOfKey(
                 FeeKey(transactions[id].idempotencyKey))) <= 1
    /\ \A w \in WalletIds :
          wallets[w].balance = InitialBalance(w) + AppliedDeltas(MaxTransactions, w)

\* C5 happens: a transaction whose balance update was applied and whose
\* processing failed has been delivered again, and that run has returned
C5_Witness ==
    \E w \in Workers :
        /\ worker[w].pc = "returned"
        /\ worker[w].err = None
        /\ transactions[worker[w].tx].status = "FAILED"
        /\ walletUpdates[worker[w].tx] # << >>

\* C6 (Spec): processTransaction on a transaction whose status is not PENDING
\* is a no-op.  The call returns without error, and its step leaves every
\* transaction (status, errorMessage, timestamps), every wallet balance, the
\* ledger accounts and entries and the whole wallet lock table unchanged.
C6_NotPendingIsNoOp ==
    [][\A w \in Workers :
          (/\ worker[w].pc = "found"
           /\ worker'[w] # worker[w]
           /\ transactions[worker[w].tx].status # "PENDING")
          => /\ worker'[w] = [worker[w] EXCEPT !.pc = "returned"]
             /\ worker'[w].err = None
             /\ transactions' = transactions
             /\ wallets' = wallets
             /\ locks' = locks
             /\ ledgerVars' = ledgerVars]_vars

\* C6 happens: a run for a FAILED or CANCELLED transaction has returned while
\* another transaction holds wallet locks
C6_Witness ==
    \E w \in Workers :
        /\ worker[w].pc = "returned"
        /\ worker[w].err = None
        /\ transactions[worker[w].tx].status \in {"FAILED", "CANCELLED"}
        /\ \E k \in DOMAIN locks : locks[k] # worker[w].tx

RECURSIVE DebitsMinusCredits(_)
\* total debits minus total credits of a sequence of entries
DebitsMinusCredits(es) ==
    IF es = << >> THEN 0
    ELSE (IF Head(es).type = "DEBIT" THEN Head(es).amount ELSE -Head(es).amount)
         + DebitsMinusCredits(Tail(es))

\* debits and credits differ by more than 0.01
OutOfBalance(es) ==
    DebitsMinusCredits(es) > Tolerance \/ DebitsMinusCredits(es) < -Tolerance

\* a step changes no balance of a ledger account
BalancesUnchanged ==
    \A a \in DOMAIN ledgerAccounts :
        /\ a \in DOMAIN ledgerAccounts'
        /\ ledgerAccounts'[a].balance = ledgerAccounts[a].balance

C8_AllOrNothing ==
    [][\A p \in LedgerClients :
          (lcall[p].err = None /\ lcall'[p].err # None)
          => /\ BalancesUnchanged
             /\ ledgerEntries' = ledgerEntries]_vars

\* C9 (SpecLedger): every ASSET account has balance >= 0 in every reachable
\* state, and a posting rejected because an entry would drive an ASSET account
\* negative leaves the balance of that account unchanged.  The account is the
\* one of the first entry the call did not apply.
C9_AssetNeverNegative ==
    /\ [](\A a \in DOMAIN ledgerAccounts :
             ledgerAccounts[a].type = "ASSET" => ledgerAccounts[a].balance >= 0)
    /\ [][\A p \in LedgerClients :
            (lcall[p].err = None /\ lcall'[p].err = "InsufficientBalance")
            => LET applied == Len(ledgerEntries') - Len(ledgerEntries)
                   a == lcall[p].entries[applied + 1].accountId
               IN ledgerAccounts'[a].balance = ledgerAccounts[a].balance]_vars

\* the entries of the log that carry transaction id t
EntriesOf(t) == SelectSeq(ledgerEntries, LAMBDA e : e.transactionId = t)

\* C10 (SpecLedger): every balance change is part of a balanced recorded
\* transaction.  For each transactionId of the entry log, a LedgerTransaction
\* with that id is recorded and the entries of the id are balanced within 0.01.
C10_EntriesRecordedAndBalanced ==
    \A i \in 1..Len(ledgerEntries) :
        LET t == ledgerEntries[i].transactionId IN
        /\ t \in DOMAIN ledgerTransactions
        /\ ~OutOfBalance(EntriesOf(t))

\* the accounts a createTransaction call in flight has locked and not yet
\* begun to release
OwnedAccounts(p) ==
    LET f == lcall[p] IN
    CASE f.pc = "locking" -> {f.affected[k] : k \in 1..f.i}
      [] f.pc = "validating" -> {f.affected[k] : k \in 1..Len(f.affected)}
      [] f.pc = "rejected" /\ f.err = "AccountNotFound" ->
            {f.affected[k] : k \in 1..Len(f.affected)}
      [] OTHER -> {}

\* C11 (SpecLedgerConcurrent): ledger account exclusivity.  No two calls in
\* flight own a common account, and every account a call owns stays locked
\* until that call releases it, whatever other calls do.
C11_AccountExclusivity ==
    /\ \A p, q \in LedgerClients :
          p # q => OwnedAccounts(p) \cap OwnedAccounts(q) = {}
    /\ \A p \in LedgerClients : OwnedAccounts(p) \subseteq ledgerLocks

\* C12 (SpecLedger): ledger posting is idempotent per key.  A createTransaction
\* call whose idempotencyKey maps to a recorded ledger transaction settles at
\* once with that transaction and no error, and changes no account, entry,
\* transaction record, idempotency key or lock; so no key ever has more than
\* one recorded transaction, however often the call is repeated.
C12_LedgerPostingIdempotent ==
    /\ [](\A l1, l2 \in DOMAIN ledgerTransactions :
             ledgerTransactions[l1].idempotencyKey = ledgerTransactions[l2].idempotencyKey
             => l1 = l2)
    /\ [][\A p \in LedgerClients :
            LET key == lcall'[p].key IN
            (/\ lcall[p].pc = "idle"
             /\ lcall'[p].pc # "idle"
             /\ key \in DOMAIN ledgerIdempotencyKeys
             /\ ledgerIdempotencyKeys[key] \in DOMAIN ledgerTransactions)
            => /\ lcall'[p].pc = "done"
               /\ lcall'[p].err = None
               /\ lcall'[p].result = ledgerIdempotencyKeys[key]
               /\ ledgerState' = ledgerState
               /\ ledgerLocks' = ledgerLocks]_vars

\* C12 happens: a call that repeats a recorded key with other entries than
\* the recorded ones has returned the recorded transaction
C12_Witness ==
    \E p \in LedgerClients :
        /\ lcall[p].pc = "done"
        /\ lcall[p].err = None
        /\ lcall[p].txid = 0
        /\ lcall[p].result \in DOMAIN ledgerTransactions
        /\ Len(lcall[p].entries) # Len(ledgerTransactions[lcall[p].result].entries)

RECURSIVE CompletedDraw(_, _)
\* the sum of amount + fee of the COMPLETED transactions among 1..n that draw
\* on wallet w
CompletedDraw(n, w) ==
    IF n = 0 THEN 0
    ELSE (IF /\ n \in DOMAIN transactions
             /\ transactions[n].status = "COMPLETED"
             /\ transactions[n].fromWalletId = w
          THEN transactions[n].amount + transactions[n].fee
          ELSE 0) + CompletedDraw(n - 1, w)

RECURSIVE Credited(_, _)
\* the sum of the positive deltas a sequence of updates gave wallet w
Credited(us, w) ==
    IF us = << >> THEN 0
    ELSE (IF Head(us)[1] = w /\ Head(us)[2] > 0 THEN Head(us)[2] ELSE 0)
         + Credited(Tail(us), w)

RECURSIVE FundsReceived(_, _)
\* the funds the transactions 1..n paid into wallet w
FundsReceived(n, w) ==
    IF n = 0 THEN 0 ELSE Credited(walletUpdates[n], w) + FundsReceived(n - 1, w)

C14_WalletMovementsMirrored ==
    \A id \in DOMAIN transactions :
        LET tx == transactions[id] IN
        /\ tx.status = "FAILED" => walletUpdates[id] = << >>
        /\ (tx.status \in {"COMPLETED", "FAILED"} /\ walletUpdates[id] # << >>)
           => LedgerTransactionsOfKey(tx.idempotencyKey) # {}

\* the wallets a transaction references
WalletsOf(tx) == {tx.fromWalletId, tx.toWalletId} \ {NoWallet}

\* C15 (Spec): transactions with disjoint wallet sets process concurrently
\* without conflict.  A transaction that shares no wallet with any other
\* transaction never ends FAILED with a conflict of the wallet lock layer
\* ('Wallet is locked') or of the ledger account lock layer ('AccountLocked').
C15_DisjointWalletsNoConflict ==
    \A id \in DOMAIN transactions :
        (/\ transactions[id].status = "FAILED"
         /\ transactions[id].errorMessage \in {"Wallet is locked", "AccountLocked"})
        => \E other \in DOMAIN transactions \ {id} :
              WalletsOf(transactions[other]) \cap WalletsOf(transactions[id]) # {}

\* the status changes the state machine of a Transaction permits
PermittedTransitions ==
    {<<"PENDING", "PROCESSING">>, <<"PROCESSING", "COMPLETED">>,
     <<"PROCESSING", "FAILED">>, <<"PENDING", "CANCELLED">>,
     <<"COMPLETED", "REVERSED">>}

\* C16 (Spec): the status of a transaction follows only the transitions
\* PENDING->PROCESSING, PROCESSING->COMPLETED, PROCESSING->FAILED,
\* PENDING->CANCELLED and COMPLETED->REVERSED.  In every step, a stored
\* transaction stays stored and its status either stays or makes one of these
\* changes, and a transaction that is new starts PENDING.
C16_StatusTransitions ==
    [][/\ \A id \in DOMAIN transactions :
             /\ id \in DOMAIN transactions'
             /\ \/ transactions'[id].status = transactions[id].status
                \/ <<transactions[id].status, transactions'[id].status>>
                      \in PermittedTransitions
       /\ \A id \in DOMAIN transactions' \ DOMAIN transactions :
             transactions'[id].status = "PENDING"]_vars

\* C16 happens: processing has completed one transaction and failed another
C16_Witness ==
    /\ \E id \in DOMAIN transactions : transactions[id].status = "COMPLETED"
    /\ \E id \in DOMAIN transactions : transactions[id].status = "FAILED"

\* C17 (SpecLive): every processTransaction call on a PENDING transaction
\* terminates without raising.  A call in flight returns; a transaction in
\* PROCESSING becomes COMPLETED or FAILED; and the segment in which a call that
\* processed the transaction returns does not throw and leaves it COMPLETED
\* with completedAt set, or FAILED with the error's message as errorMessage.
C17_ProcessingTerminates ==
    /\ [][\A w \in Workers :
            (/\ worker[w].pc \notin {"idle", "found", "returned"}
             /\ worker'[w].pc = "returned")
            => LET tx == transactions'[worker[w].tx] IN
               /\ ~worker'[w].raised
               /\ \/ /\ tx.status = "COMPLETED"
                     /\ tx.completedAt
                     /\ worker'[w].err = None
                  \/ /\ tx.status = "FAILED"
                     /\ tx.errorMessage # None
                     /\ tx.errorMessage = worker'[w].err]_vars
    /\ \A w \in Workers : (worker[w].pc = "found") ~> (worker[w].pc = "returned")
    /\ \A id \in 1..MaxTransactions :
          (id \in DOMAIN transactions /\ transactions[id].status = "PROCESSING")
          ~> (id \in DOMAIN transactions
              /\ transactions[id].status \in {"COMPLETED", "FAILED"})

\* C17 happens: a call whose lock acquisition threw has returned with the
\* transaction FAILED, and a call on another transaction has completed it
C17_Witness ==
    /\ \E w \in Workers :
          /\ worker[w].pc = "returned"
          /\ worker[w].err = "Wallet is locked"
          /\ transactions[worker[w].tx].status = "FAILED"
    /\ \E id \in DOMAIN transactions : transactions[id].status \in {"COMPLETED", "FAILED"}

\* Wallet locks whose transactionId is id
LocksOwnedBy(id) == {k \in DOMAIN locks : locks[k] = id}

\* C18 (Spec): no wallet lock leak.  Every entry of the lock table is owned by
\* a stored transaction that is in PROCESSING and is on one of that
\* transaction's wallets; and once a processTransaction call has returned with
\* its transaction COMPLETED or FAILED, no entry is owned by that transaction.
C18_NoLockLeak ==
    /\ \A k \in DOMAIN locks :
          /\ locks[k] \in DOMAIN transactions
          /\ transactions[locks[k]].status = "PROCESSING"
          /\ k \in {transactions[locks[k]].fromWalletId, transactions[locks[k]].toWalletId}
    /\ \A w \in Workers :
          (/\ worker[w].pc = "returned"
           /\ transactions[worker[w].tx].status \in {"COMPLETED", "FAILED"})
          => LocksOwnedBy(worker[w].tx) = {}

\* C18 happens: a call that had acquired its locks has returned with its
\* transaction FAILED by a handler's error and owns no lock, while another
\* transaction still holds one
C18_Witness ==
    /\ \E w \in Workers :
          /\ worker[w].pc = "returned"
          /\ transactions[worker[w].tx].status = "FAILED"
          /\ transactions[worker[w].tx].errorMessage \notin {None, "Wallet is locked"}
          /\ transactions[worker[w].tx].toWalletId # NoWallet
          /\ LocksOwnedBy(worker[w].tx) = {}
    /\ \E k \in DOMAIN locks : TRUE

\* C20 (Spec): cancel succeeds only on a PENDING transaction and for its owning
\* user; for another user or any other status it throws (CancelRejected, which
\* changes nothing).  A transaction becomes CANCELLED only from PENDING, by the
\* cancel of its owner and of no other caller, with cancelledAt set; and
\* cancelledAt changes in no other step.
C20_CancelOnlyPendingByOwner ==
    /\ [](\A id \in 1..MaxTransactions, u \in Callers :
            (CancelError(id, u) = None)
            <=> (/\ id \in DOMAIN transactions
                 /\ transactions[id].status = "PENDING"
                 /\ transactions[id].userId = u))
    /\ [][\A id \in DOMAIN transactions :
            LET before == transactions[id]
                after == transactions'[id]
            IN /\ (after.status = "CANCELLED" /\ before.status # "CANCELLED")
                  => /\ before.status = "PENDING"
                     /\ after.cancelledAt
                     /\ Cancel(id, before.userId)
                     /\ \A u \in Callers \ {before.userId} : ~Cancel(id, u)
               /\ (after.cancelledAt # before.cancelledAt)
                  => (after.status = "CANCELLED" /\ before.status = "PENDING")
               /\ (after.status = before.status)
                  => (after.cancelledAt = before.cancelledAt)]_vars

\* C20 happens: one transaction has been cancelled by its owner, and a cancel
\* of another one, taken up by a worker, is rejected for its owner because of
\* its status and for another user because of the owner check
C20_Witness ==
    /\ \E id \in DOMAIN transactions :
          transactions[id].status = "CANCELLED" /\ transactions[id].cancelledAt
    /\ \E id \in DOMAIN transactions :
          /\ transactions[id].status \in {"PROCESSING", "COMPLETED", "FAILED"}
          /\ CancelError(id, transactions[id].userId) = "Cannot cancel transaction in this status"
          /\ CancelError(id, NumUsers + 1) = "Cannot cancel transaction of another user"

\* The wallets a transaction names
WalletKeys(tx) == {tx.fromWalletId, tx.toWalletId} \ {NoWallet}

\* C19 (Spec): lock acquisition is all-or-nothing.  The segment of
\* processTransaction that calls acquireLocks either leaves every wallet of the
\* transaction locked by it, or signals the conflict with the lock table as it
\* was and no entry owned by the transaction; a call gets to its wallet updates
\* only through a successful acquisition, and a wallet balance changes only in
\* a call that is past it.
C19_LockAcquisitionAllOrNothing ==
    [][/\ \A w \in Workers :
            LET id == worker[w].tx IN
            /\ (worker[w].pc = "found" /\ worker'[w].pc = "rejected")
               => /\ locks' = locks
                  /\ \A k \in DOMAIN locks' : locks'[k] # id
            /\ (worker[w].pc # "acquiring" /\ worker'[w].pc = "acquiring")
               => /\ worker[w].pc = "found"
                  /\ \A k \in WalletKeys(transactions[id]) :
                        k \in DOMAIN locks' /\ locks'[k] = id
            /\ (worker[w].pc # worker'[w].pc /\ worker'[w].pc \in {"updatedFrom", "updated"})
               => worker[w].pc \in {"acquiring", "updatedFrom"}
       /\ (wallets' # wallets)
          => \E w \in Workers :
                /\ worker[w].pc \in {"acquiring", "updatedFrom"}
                /\ worker'[w].pc # worker[w].pc
                /\ \A k \in DOMAIN wallets :
                      wallets'[k] # wallets[k] => k \in WalletKeys(transactions[worker[w].tx])
      ]_vars

\* C19 happens: a transfer's acquireLocks has thrown on the toWallet, which a
\* deposit in PROCESSING holds; nobody else names the transfer's fromWallet,
\* and it is not locked
C19_Witness ==
    \E w \in Workers :
       LET tx == transactions[worker[w].tx] IN
       /\ worker[w].pc = "rejected"
       /\ worker[w].err = "Wallet is locked"
       /\ tx.type = "TRANSFER"
       /\ tx.fromWalletId \notin DOMAIN locks
       /\ tx.toWalletId \in DOMAIN locks
       /\ LET other == transactions[locks[tx.toWalletId]] IN
          /\ other.type = "DEPOSIT"
          /\ other.status = "PROCESSING"

\* The stores a create call writes
CreateStores == <<transactions, idempotencyKeys, jobs>>

\* C21 (SpecValidate): a rejected create leaves no trace.  No segment of a
\* create call before the end of its validation writes a Transaction record,
\* an idempotency index entry or a job, and the segment in which the call is
\* rejected (it settles with an error) writes none either and is never the
\* segment that follows a passed validation.
C21_RejectedCreateLeavesNoTrace ==
    [][\A r \in RequestSlots :
          /\ (request[r].pc \in {"idle", "v_from", "v_to"} /\ request'[r] # request[r])
             => UNCHANGED CreateStores
          /\ (request[r].pc # "done" /\ request'[r].pc = "done"
                                     /\ request'[r].err # None)
             => /\ UNCHANGED CreateStores
                /\ request[r].pc \in {"idle", "v_from", "v_to"}
                /\ request'[r].result = NoTransaction
                /\ request'[r].dto.idempotencyKey \in DOMAIN idempotencyKeys'
                   => idempotencyKeys'[request'[r].dto.idempotencyKey] \in DOMAIN transactions'
      ]_vars

\* C21 happens: with one record stored, a request under a new key has been
\* rejected for its balance, and the key is not in the index
C21_Witness ==
    \E r \in RequestSlots :
       /\ request[r].pc = "done"
       /\ request[r].err = "Insufficient balance"
       /\ request[r].dto.idempotencyKey \notin DOMAIN idempotencyKeys
       /\ DOMAIN transactions # {}
       /\ Len(jobs) = Cardinality(DOMAIN transactions)

\* The creation rules other than the balance rule, for a record and the wallets
CreationRulesButBalance(tx, ws) ==
    /\ tx.amount > 0
    /\ tx.fromWalletId # NoWallet
       => (tx.fromWalletId \in DOMAIN ws /\ ws[tx.fromWalletId].userId = tx.userId)
    /\ tx.toWalletId # NoWallet => tx.toWalletId \in DOMAIN ws
    /\ (tx.fromWalletId # NoWallet /\ tx.toWalletId # NoWallet)
       => tx.fromWalletId # tx.toWalletId
    /\ tx.type = "TRANSFER" => (tx.fromWalletId # NoWallet /\ tx.toWalletId # NoWallet)
    /\ tx.type = "DEPOSIT" => tx.toWalletId # NoWallet
    /\ tx.type = "WITHDRAWAL" => tx.fromWalletId # NoWallet

\* The balance rule: the source wallet holds amount + fee
BalanceRule(tx, ws) ==
    (tx.fromWalletId # NoWallet /\ tx.fromWalletId \in DOMAIN ws)
    => ws[tx.fromWalletId].balance >= tx.amount + tx.fee

\* C22 as stated: every Transaction record satisfies the creation rules in the
\* state in which it is stored: positive amount, existing wallets, the source
\* wallet owned by the requesting user and holding amount + fee, two distinct
\* wallets when both are set, and the wallet fields its type requires.
C22_StoredRecordsSatisfiedRules ==
    [][\A id \in DOMAIN transactions' \ DOMAIN transactions :
          /\ CreationRulesButBalance(transactions'[id], wallets)
          /\ BalanceRule(transactions'[id], wallets)]_vars

\* C22 amended (SpecValidate): every Transaction record satisfies, in the state
\* in which it is stored, every creation rule but the balance rule; and the
\* balance rule held of the source wallet as the create call read it: what the
\* call read was the wallet of that moment, and it held amount + fee.
C22_StoredRecordsPassedValidation ==
    [][/\ \A id \in DOMAIN transactions' \ DOMAIN transactions :
            LET tx == transactions'[id] IN
            /\ CreationRulesButBalance(tx, wallets)
            /\ \E r \in RequestSlots :
                  /\ request[r].pc = "validated"
                  /\ request'[r].result = id
                  /\ tx = NewTransaction(request[r].dto, request[r].userId)
                  /\ tx.fromWalletId # NoWallet
                     => /\ request[r].fromWallet.userId = tx.userId
                        /\ request[r].fromWallet.balance >= tx.amount + tx.fee
       /\ \A r \in RequestSlots :
            (request[r].pc = "idle" /\ request'[r].pc = "v_from")
            => request'[r].fromWallet = wallets[request'[r].dto.fromWalletId]
       /\ \A r \in RequestSlots :
            (request[r].pc # "idle" /\ request'[r].pc \notin {"idle", "done"})
            => request'[r].fromWallet = request[r].fromWallet]_vars

\* C22 happens: a record with a source wallet has been stored, and the wallet
\* holds less than amount + fee by now
C22_Witness ==
    \E r \in RequestSlots :
       /\ request[r].pc = "done"
       /\ ~request[r].existing
       /\ request[r].result \in DOMAIN transactions
       /\ LET tx == transactions[request[r].result] IN
          /\ tx.fromWalletId # NoWallet
          /\ wallets[tx.fromWalletId].balance < tx.amount + tx.fee

\* A transfer from a wallet to itself
SameWalletTransfer(dto) ==
    dto.type = "TRANSFER" /\ dto.fromWalletId # NoWallet /\ dto.fromWalletId = dto.toWalletId

\* The rules validateTransaction tests before it looks at the destination
EarlierRulesPass(dto, userId) ==
    /\ dto.amount > 0
    /\ dto.fromWalletId \in DOMAIN wallets
    /\ wallets[dto.fromWalletId].userId = userId
    /\ wallets[dto.fromWalletId].balance >= dto.amount + dto.fee

\* C23 as stated: a create call for a same-wallet transfer of a positive
\* amount, made by the owner of the wallet, ends with the same-wallet error,
\* whatever the balance and the fee.
C23_SameWalletErrorForEveryBalance ==
    [][\A r \in RequestSlots :
          (/\ request[r].pc \in {"v_from", "v_to"}
           /\ SameWalletTransfer(request[r].dto)
           /\ wallets[request[r].dto.fromWalletId].userId = request[r].userId
           /\ request'[r].pc = "done")
          => request'[r].err = "Cannot transfer to the same wallet"]_vars

\* C23 amended (SpecValidate): a same-wallet transfer is always rejected and
\* never stored; the error is the same-wallet error exactly when the amount is
\* positive and the wallet exists, belongs to the caller and holds amount +
\* fee, and the error of the rule that fails first otherwise.  A request in
\* flight that has got as far as the destination wallet is rejected with the
\* same-wallet error.
C23_SameWalletTransferRejected ==
    /\ [](\A dto \in AnyRequests, u \in Callers :
            SameWalletTransfer(dto)
            => LET out == ValidationOutcome(dto, u) IN
               /\ out.pc = "done"
               /\ out.err # None
               /\ (out.err = "Cannot transfer to the same wallet")
                  <=> EarlierRulesPass(dto, u)
               /\ (out.err = "Insufficient balance")
                  <=> (/\ dto.amount > 0
                       /\ dto.fromWalletId \in DOMAIN wallets
                       /\ wallets[dto.fromWalletId].userId = u
                       /\ wallets[dto.fromWalletId].balance < dto.amount + dto.fee))
    /\ [](\A r \in RequestSlots :
            request[r].pc = "validated" => ~SameWalletTransfer(request[r].dto))
    /\ [](\A id \in DOMAIN transactions :
            ~(transactions[id].fromWalletId # NoWallet
              /\ transactions[id].fromWalletId = transactions[id].toWalletId))
    /\ [][\A r \in RequestSlots :
            (/\ request[r].pc = "v_to"
             /\ SameWalletTransfer(request[r].dto)
             /\ request'[r] # request[r])
            => /\ request'[r].pc = "done"
               /\ request'[r].err = "Cannot transfer to the same wallet"]_vars

\* C23 happens: a same-wallet transfer has been rejected with the same-wallet
\* error while the other wallet, empty, would have failed the balance rule
C23_Witness ==
    /\ \E r \in RequestSlots :
          request[r].pc = "done" /\ request[r].err = "Cannot transfer to the same wallet"
    /\ \E w \in WalletIds : wallets[w].balance = 0

\* The ledger holds a recorded transaction under key with the entries es
PostedGroup(key, es) ==
    \E l \in LedgerTransactionsOfKey(key) :
       LET made == ledgerTransactions[l].entries IN
       /\ Len(made) = Len(es)
       /\ \A i \in 1..Len(es) :
             /\ made[i].accountId = es[i].accountId
             /\ made[i].type = es[i].type
             /\ made[i].amount = es[i].amount

\* The processing of transaction id has ended, and not because a wallet lock
\* or the balance guard turned it away
ProcessedPastGuards(id) ==
    /\ transactions[id].status \in {"COMPLETED", "FAILED"}
    /\ transactions[id].errorMessage \notin {"Wallet is locked", "Insufficient balance"}

\* C24 (Spec): a processed DEPOSIT of amount a into wallet W ends COMPLETED,
\* having increased W's balance by exactly a, with the principal group (CREDIT
\* a on wallet-W, DEBIT a on bank-clearing) recorded in the ledger and, when
\* fee > 0, the fee group (DEBIT fee on wallet-W, CREDIT fee on fee-revenue).
C24_DepositCompletesAndPosts ==
    \A id \in DOMAIN transactions :
       LET tx == transactions[id] IN
       (tx.type = "DEPOSIT" /\ ProcessedPastGuards(id))
       => /\ tx.status = "COMPLETED"
          /\ walletUpdates[id] = << <<tx.toWalletId, tx.amount>> >>
          /\ PostedGroup(tx.idempotencyKey, PrincipalEntries(tx))
          /\ tx.fee > 0 => PostedGroup(FeeKey(tx.idempotencyKey), FeeEntries(tx))

\* C25 (Spec): a processed WITHDRAWAL of amount a with fee f from a wallet that
\* holds a + f ends COMPLETED, having decreased the balance by exactly a + f,
\* with the principal group (DEBIT a on the wallet, CREDIT a on bank-clearing)
\* and the fee group (DEBIT f on the wallet, CREDIT f on fee-revenue) recorded.
C25_WithdrawalCompletesAndPosts ==
    \A id \in DOMAIN transactions :
       LET tx == transactions[id] IN
       (tx.type = "WITHDRAWAL" /\ ProcessedPastGuards(id))
       => /\ tx.status = "COMPLETED"
          /\ walletUpdates[id] = << <<tx.fromWalletId, -(tx.amount + tx.fee)>> >>
          /\ PostedGroup(tx.idempotencyKey, PrincipalEntries(tx))
          /\ tx.fee > 0 => PostedGroup(FeeKey(tx.idempotencyKey), FeeEntries(tx))

\* C26 (Spec): a processed TRANSFER of amount a with fee f has changed no
\* wallet, or it is COMPLETED and has decreased the source by exactly a + f and
\* increased the destination by exactly a; a transfer whose processing has
\* ended never has exactly one of its two wallet updates applied.
C26_TransferAllOrNothing ==
    \A id \in DOMAIN transactions :
       LET tx == transactions[id] IN
       (tx.type = "TRANSFER" /\ tx.status \in {"COMPLETED", "FAILED"})
       => /\ Len(walletUpdates[id]) # 1
          /\ \/ walletUpdates[id] = << >>
             \/ /\ tx.status = "COMPLETED"
                /\ walletUpdates[id] = << <<tx.fromWalletId, -(tx.amount + tx.fee)>>,
                                          <<tx.toWalletId, tx.amount>> >>

\* The recorded ledger transactions that reverse the original id
ReversalsOf(id) ==
    {l \in DOMAIN ledgerTransactions :
        \E now \in 0..MaxClock : ledgerTransactions[l].idempotencyKey = ReversalKey(id, now)}

\* C27 (SpecReverse): a ledger transaction is reversed at most once.  Over
\* every interleaving of reverseTransaction calls, at most one reversal of an
\* original is ever recorded; and a reverseTransaction call that finds its
\* original REVERSED fails with the already-reversed conflict and posts
\* nothing.
C27_ReversedAtMostOnce ==
    /\ [](\A id \in DOMAIN ledgerTransactions : Cardinality(ReversalsOf(id)) <= 1)
    /\ [][\A p \in LedgerClients :
            (/\ client[p].pc = "reversing"
             /\ client'[p] # client[p]
             /\ ledgerTransactions[client[p].orig].status = "REVERSED")
            => /\ client'[p].err = "AlreadyReversed"
               /\ UNCHANGED ledgerState]_vars

\* No ledger call is in flight
LedgerQuiet ==
    /\ \A p \in LedgerCallers : lcall[p].pc = "idle"
    /\ \A p \in LedgerClients : client[p].pc = "idle"

\* C28 (SpecReverse): after a COMPLETED ledger transaction is reversed, the
\* balances are what they were before the original was posted.  Stated for an
\* original posted on new accounts (balance 0) with nothing else in the entry
\* log than the original and its reversal: once the original is REVERSED and
\* no call is in flight, every account is back at 0.
C28_ReversalRestoresBalance ==
    \A id \in DOMAIN ledgerTransactions :
       (/\ ledgerTransactions[id].status = "REVERSED"
        /\ LedgerQuiet
        /\ \A i \in 1..Len(ledgerEntries) :
              ledgerEntries[i].transactionId \in {id} \cup ReversalsOf(id))
       => \A a \in DOMAIN ledgerAccounts : ledgerAccounts[a].balance = 0

\* The createTransaction calls in flight
PostingsInFlight == {p \in LedgerCallers : lcall[p].pc \notin {"idle", "done"}}

\* C29 (SpecLedgerConcurrent): ledger account locks never leak.  Whenever no
\* createTransaction call is in flight the lock table is empty, whether the
\* calls returned or threw; and a call that runs with no other call in flight
\* is never rejected as locked.
C29_LedgerLocksNeverLeak ==
    /\ [](PostingsInFlight = {} => ledgerLocks = {})
    /\ [][\A p \in LedgerCallers :
            (/\ PostingsInFlight \subseteq {p}
             /\ lcall'[p] # lcall[p])
            => ~(lcall'[p].pc = "rejected" /\ lcall'[p].err = "AccountLocked")]_vars

\* C29 happens: with no call in flight, one call has thrown after it had
\* locked its accounts, a posting is recorded, and no account is locked
C29_Witness ==
    /\ PostingsInFlight = {}
    /\ \E p \in LedgerClients : client[p].pc = "idle" /\ client[p].err = "AccountNotFound"
    /\ DOMAIN ledgerTransactions # {}
    /\ ledgerLocks = {}

\* The last BlockThreshold recordFailedAttempt calls for the identifier, with no
\* clearFailedAttempts call in between, fall within one reset delay
AttemptsWithinWindow(identifier) ==
    LET log == attemptLog[identifier] IN
    /\ Len(log) >= BlockThreshold
    /\ log[Len(log)] - log[Len(log) - BlockThreshold + 1] < ResetDelay

\* C30 (SpecSecurity): auto-block after 5 failed attempts.  Whenever
\* recordFailedAttempt has been called 5 times for an identifier within a
\* 15-minute window with no clearFailedAttempts in between, checkIPReputation
\* for it returns passed = false, and it keeps returning passed = false after
\* any later clearFailedAttempts call or counter-reset timer.
C30_AutoBlockAfterFiveAttempts ==
    /\ [](\A identifier \in Identifiers :
            AttemptsWithinWindow(identifier)
            => ~checkIPReputation(identifier).passed)
    /\ [][\A identifier \in Identifiers :
            ~checkIPReputation(identifier).passed
            => ~(checkIPReputation(identifier).passed)']_vars

\* the positions of the queue that carry the transaction id
JobsOf(id) == {j \in 1..Len(jobs) : jobs[j] = id}

\* C31 (Spec): a successful create of a new request stores a Transaction in
\* status PENDING, maps its idempotencyKey to its id and enqueues exactly one
\* process-transaction job carrying that id, in the step that stores the
\* record; every job in the queue and every job a worker has dequeued refers
\* to a stored transaction; and no step of create changes a wallet, a wallet
\* lock or the ledger.
C31_CreateStoresIndexesEnqueues ==
    /\ [](/\ \A j \in 1..Len(jobs) : jobs[j] \in DOMAIN transactions
          /\ \A w \in Workers :
                worker[w].pc # "idle" => worker[w].tx \in DOMAIN transactions
          /\ \A id \in DOMAIN transactions : Cardinality(JobsOf(id)) = 1)
    /\ [][\A r \in RequestSlots :
            request'[r] # request[r]
            => /\ UNCHANGED <<wallets, locks, ledgerVars>>
               /\ (/\ request'[r].pc = "done"
                   /\ request'[r].err = None
                   /\ ~request'[r].existing)
                  => LET id == request'[r].result
                         key == request[r].dto.idempotencyKey
                     IN /\ id \notin DOMAIN transactions
                        /\ DOMAIN transactions' = DOMAIN transactions \cup {id}
                        /\ transactions'[id].status = "PENDING"
                        /\ transactions'[id].idempotencyKey = key
                        /\ idempotencyKeys' = MapSet(idempotencyKeys, key, id)
                        /\ jobs' = Append(jobs, id)]_vars

\* C31 happens: a create has returned a new transaction, which is stored,
\* indexed and queued, while a worker processes an earlier one
C31_Witness ==
    \E r \in RequestSlots :
        /\ request[r].pc = "done"
        /\ request[r].err = None
        /\ ~request[r].existing
        /\ transactions[request[r].result].status = "PENDING"
        /\ idempotencyKeys[request[r].dto.idempotencyKey] = request[r].result
        /\ JobsOf(request[r].result) # {}
        /\ \E w \in Workers : worker[w].pc # "idle" /\ worker[w].tx # request[r].result

\* C32 (SpecEnqueue): if enqueueing the process-transaction job fails inside
\* create, create reports the error and leaves no Transaction record and no
\* idempotency index entry behind: the step of create that throws the error of
\* the queue changes neither store, every stored PENDING transaction has a job
\* enqueued for it, and a create that is answered with a stored transaction is
\* answered with one that has a job.
C32_FailedEnqueueLeavesNoRecord ==
    /\ [](/\ \A id \in DOMAIN transactions :
                transactions[id].status = "PENDING" => JobsOf(id) # {}
          /\ \A r \in RequestSlots :
                (request[r].pc = "done" /\ request[r].existing)
                => JobsOf(request[r].result) # {})
    /\ [][\A r \in RequestSlots :
            (request'[r] # request[r] /\ request'[r].err = "QueueError")
            => UNCHANGED <<transactions, idempotencyKeys>>]_vars

RECURSIVE SignedSum(_, _)
\* The signed sum of the entries of the log for an account: an entry counts
\* +amount when it increases an account of that type and -amount otherwise
SignedSum(log, a) ==
    IF log = <<>> THEN 0
    ELSE SignedSum(SubSeq(log, 1, Len(log) - 1), a)
         + (LET e == log[Len(log)] IN
            IF e.accountId # a THEN 0
            ELSE IF shouldIncreaseBalance(ledgerAccounts[a].type, e.type)
                 THEN e.amount ELSE 0 - e.amount)

\* the entries rev are the entries orig with DEBIT and CREDIT swapped
MirrorImage(rev, orig) ==
    /\ Len(rev) = Len(orig)
    /\ \A i \in 1..Len(orig) :
          /\ rev[i].accountId = orig[i].accountId
          /\ rev[i].amount = orig[i].amount
          /\ rev[i].type # orig[i].type

\* the entry log ends with the entries of the original followed by those of
\* its reversal: no other posting came in between or after
ReversedAtOnce(id, rid) ==
    LET n == Len(ledgerTransactions[id].entries)
        len == Len(ledgerEntries)
    IN /\ id # rid
       /\ len >= 2 * n
       /\ \A i \in 1..n :
             /\ ledgerEntries[len - 2 * n + i].transactionId = id
             /\ ledgerEntries[len - n + i].transactionId = rid

\* the entry log before the entries of the original, when ReversedAtOnce
LogBefore(id) ==
    SubSeq(ledgerEntries, 1,
           Len(ledgerEntries) - 2 * Len(ledgerTransactions[id].entries))

\* C33 (SpecReverse): ledger reversal is a round trip.  When a
\* reverseTransaction call of a recorded transaction succeeds, the original's
\* status becomes REVERSED and the reversal's entries are the original's with
\* DEBIT and CREDIT swapped and equal amounts; when no other posting came in
\* between, every account the original touched has the balance it had before
\* the original was posted (the signed sum of the log before it); and when the
\* reversal posting fails the original's status is unchanged.
C33_ReversalRoundTrip ==
    [][\A p \in LedgerClients :
          (client[p].pc = "posting" /\ client'[p].pc = "idle")
          => LET id == client[p].orig
                 rid == lcall[p].result
             IN IF lcall[p].err = None
                THEN /\ ledgerTransactions'[id].status = "REVERSED"
                     /\ MirrorImage(ledgerTransactions[rid].entries,
                                    ledgerTransactions[id].entries)
                     /\ ReversedAtOnce(id, rid)
                        => \A i \in 1..Len(ledgerTransactions[id].entries) :
                              LET a == ledgerTransactions[id].entries[i].accountId
                              IN ledgerAccounts'[a].balance = SignedSum(LogBefore(id), a)
                ELSE ledgerTransactions'[id].status = ledgerTransactions[id].status]_vars

\* C33 happens: a transaction posted after another posting is REVERSED, its
\* reversal follows it at the end of the log, and no call is in flight
C33_Witness ==
    /\ \A p \in LedgerClients : client[p].pc = "idle"
    /\ \E id, rid \in DOMAIN ledgerTransactions :
          /\ ledgerTransactions[id].status = "REVERSED"
          /\ ReversedAtOnce(id, rid)
          /\ LogBefore(id) # <<>>
          /\ \E i \in 1..Len(LogBefore(id)) :
                LogBefore(id)[i].accountId = ledgerTransactions[id].entries[1].accountId

\* C34 (SpecReverse): the ledger entry log is append-only.  In every step
\* (of createTransaction, of reverseTransaction, of a posting that fails) the
\* entries present before are still present afterwards, at the same positions
\* and with identical fields; a reversal only adds entries.
C34_EntryLogAppendOnly ==
    [][IsPrefix(ledgerEntries, ledgerEntries')]_vars

\* C34 happens: the log holds the entries of a transaction that was reversed,
\* those of its reversal, and an entry left by a posting that failed
C34_Witness ==
    /\ \E id \in DOMAIN ledgerTransactions :
          /\ ledgerTransactions[id].status = "REVERSED"
          /\ \E i \in 1..Len(ledgerEntries) : ledgerEntries[i].transactionId = id
    /\ \E i \in 1..Len(ledgerEntries) :
          /\ ledgerEntries[i].transactionId \notin DOMAIN ledgerTransactions
          /\ \A p \in LedgerCallers : lcall[p].txid # ledgerEntries[i].transactionId

\* what an entry counts for on an account of the type: a DEBIT +amount and a
\* CREDIT -amount on ASSET and EXPENSE, the opposite on the other types
SignedAmount(accountType, e) ==
    (IF e.type = "DEBIT" THEN 1 ELSE 0 - 1)
    * (IF accountType \in {"ASSET", "EXPENSE"} THEN 1 ELSE 0 - 1)
    * e.amount

RECURSIVE LoggedBalance(_, _, _)
\* the signed sum of the first n entries of the log that are on account a
LoggedBalance(log, n, a) ==
    IF n = 0 THEN 0
    ELSE LoggedBalance(log, n - 1, a)
         + (IF log[n].accountId = a
            THEN SignedAmount(ledgerAccounts[a].type, log[n])
            ELSE 0)

\* C35 (SpecLedger): in every reachable state the balance of each ledger
\* account equals the signed sum of the entries logged for it (a DEBIT counts
\* +amount and a CREDIT -amount on ASSET and EXPENSE accounts, the opposite on
\* LIABILITY, EQUITY and REVENUE accounts), and the balance snapshot of each
\* entry equals the balance of its account right after the entry was applied,
\* that is the signed sum of the log up to and including the entry.
C35_BalanceIsSignedSumOfEntries ==
    /\ \A a \in DOMAIN ledgerAccounts :
          ledgerAccounts[a].balance = LoggedBalance(ledgerEntries, Len(ledgerEntries), a)
    /\ \A i \in 1..Len(ledgerEntries) :
          ledgerEntries[i].balance
              = LoggedBalance(ledgerEntries, i, ledgerEntries[i].accountId)

\* C35 happens: an account that is increased by credits and one that is
\* increased by debits both carry entries, one of them more than one
C35_Witness ==
    \E a, b \in DOMAIN ledgerAccounts :
        /\ ledgerAccounts[a].type \in {"ASSET", "EXPENSE"}
        /\ ledgerAccounts[b].type \in {"LIABILITY", "EQUITY", "REVENUE"}
        /\ \E i, j, k \in 1..Len(ledgerEntries) :
              /\ i < j
              /\ ledgerEntries[i].accountId = a
              /\ ledgerEntries[j].accountId = a
              /\ ledgerEntries[k].accountId = b
        /\ ledgerAccounts[a].balance > 0

\* the step is a step of an operation that acts on the transaction: a
\* processTransaction call for it moves, or it is cancelled
ActsOn(id) ==
    \/ \E w \in Workers : worker'[w] # worker[w] /\ worker[w].tx = id
    \/ /\ id \in DOMAIN transactions
       /\ transactions[id].status = "PENDING"
       /\ transactions'[id].status = "CANCELLED"

\* C36 (Spec): wallet lock ownership is respected.  No step removes or
\* replaces a wallet lock entry whose transactionId differs from the
\* transaction the operation acts on: a processTransaction call that fails
\* lock acquisition, and a cancel of a PENDING transaction, leave every lock
\* held by another transaction in place.
C36_LockOwnershipRespected ==
    [][\A k \in DOMAIN locks :
          (k \notin DOMAIN locks' \/ locks'[k] # locks[k]) => ActsOn(locks[k])]_vars

\* the ledger idempotency keys the engine derives for a domain transaction:
\* its idempotencyKey for the principal posting, and that key with '-fee' for
\* the fee posting when it has a fee
DerivedLedgerKeys(tx) ==
    {tx.idempotencyKey} \cup (IF tx.fee > 0 THEN {FeeKey(tx.idempotencyKey)} ELSE {})

\* C37 (SpecKeys): the ledger idempotency keys derived by the engine never
\* collide across distinct domain transactions, for every choice of client
\* idempotency keys: no two stored transactions derive a common key, and every
\* COMPLETED transaction that posts and has a fee has a principal ledger
\* transaction and a fee ledger transaction of its own.
C37_DerivedLedgerKeysNeverCollide ==
    /\ \A a, b \in DOMAIN transactions :
          a # b => DerivedLedgerKeys(transactions[a])
                      \cap DerivedLedgerKeys(transactions[b]) = {}
    /\ \A id \in DOMAIN transactions :
          LET tx == transactions[id] IN
          (tx.status = "COMPLETED" /\ tx.fee > 0 /\ tx.type # "TRADE")
          => /\ tx.idempotencyKey \in DOMAIN ledgerIdempotencyKeys
             /\ FeeKey(tx.idempotencyKey) \in DOMAIN ledgerIdempotencyKeys
             /\ ledgerIdempotencyKeys[tx.idempotencyKey]
                   # ledgerIdempotencyKeys[FeeKey(tx.idempotencyKey)]

\* executeWithRetry is in flight
RetryInFlight == retry.pc \in {"calling", "sleeping"}

\* what every reading of C38 has in common: at most maxRetries + 1 invocations
\* of fn, no sleep after the final attempt, termination, the first success
\* returned without a further attempt, and the last error rethrown once the
\* attempts are exhausted
RetryBounded ==
    /\ [](/\ retry.calls <= retry.config.maxRetries + 1
          /\ retry.pc = "sleeping" => retry.calls <= retry.config.maxRetries
          /\ retry.pc \in {"returned", "thrown"} => retry.sleeps = retry.calls - 1)
    /\ RetryInFlight ~> ~RetryInFlight
    /\ [][(retry.pc = "calling" /\ retry'.pc = "returned")
            => retry'.calls = retry.calls]_vars
    /\ [][(RetryInFlight /\ retry'.pc = "thrown")
            => /\ retry'.thrown = retry'.lastError
               /\ retry'.thrown.of = retry'.calls
               /\ retry'.calls = retry.calls]_vars

\* an attempt settles and the loop goes on to sleep or to throw
AttemptFails(kind) ==
    /\ retry.pc = "calling"
    /\ retry' # retry
    /\ retry'.lastError = [kind |-> kind, of |-> retry.calls]

\* C38 as stated (SpecRetry): executeWithRetry always terminates after at most
\* maxRetries + 1 invocations of fn; it returns the first successful result
\* without further attempts, rethrows immediately when retryableErrors is set
\* and the error message matches none of them (an empty or absent message
\* matches none), otherwise rethrows the last error once the attempts are
\* exhausted, and never sleeps after the final attempt.
C38_RetryTerminatesAsStated ==
    /\ RetryBounded
    /\ [][\A kind \in {"other", "nomessage"} :
            (AttemptFails(kind) /\ retry.config.filtered)
            => retry'.pc = "thrown"]_vars
    /\ [][\A kind \in FnOutcomes :
            (/\ AttemptFails(kind)
             /\ ~(retry.config.filtered /\ kind \in {"other", "nomessage"})
             /\ retry.calls <= retry.config.maxRetries)
            => retry'.pc = "sleeping"]_vars

\* C38 amended (SpecRetry): as stated, but the error is rethrown immediately
\* only when retryableErrors is set and the error has a non-empty message
\* that matches none of them; an error with an empty or absent message is
\* retried like a retryable one.
C38_RetryTerminates ==
    /\ RetryBounded
    /\ [][(AttemptFails("other") /\ retry.config.filtered)
            => retry'.pc = "thrown"]_vars
    /\ [][\A kind \in FnOutcomes :
            (/\ AttemptFails(kind)
             /\ ~(retry.config.filtered /\ kind = "other")
             /\ retry.calls <= retry.config.maxRetries)
            => retry'.pc = "sleeping"]_vars

\* C38 happens: with retryableErrors set and maxRetries + 1 invocations made,
\* the last of which failed with an empty message, the last error is thrown
\* after maxRetries sleeps
C38_Witness ==
    /\ retry.pc = "thrown"
    /\ retry.config.filtered
    /\ retry.config.maxRetries = MaxRetryConfig
    /\ retry.calls = retry.config.maxRetries + 1
    /\ retry.sleeps = retry.config.maxRetries
    /\ retry.thrown = [kind |-> "nomessage", of |-> retry.calls]

\* the calls of the key answered allowed = true with a timestamp in the window
\* of the given length that ends with the timestamp log[i], inclusive
AllowedInWindow(log, i, windowMs) ==
    {j \in 1..Len(log) : log[i] - windowMs < log[j] /\ log[j] <= log[i]}

\* C39 (SpecRate): checkRateLimit never admits more than the configured rate.
\* For every key, over calls with non-decreasing clock values, the calls
\* answered allowed = true within any 1-second window number at most
\* requestsPerSecond and within any 60-second window at most
\* requestsPerMinute (a window holds the instants less than its length apart;
\* the fullest ones end with an allowed call); and a call answered
\* allowed = false is not recorded and carries a retryAfter greater than 0.
C39_RateNeverExceeded ==
    /\ [](/\ \A key \in RateKeys : \A i \in 1..Len(rateAllowed[key]) :
                /\ Cardinality(AllowedInWindow(rateAllowed[key], i, OneSecond))
                      <= RequestsPerSecond
                /\ Cardinality(AllowedInWindow(rateAllowed[key], i, OneMinute))
                      <= RequestsPerMinute
          /\ ~rateAnswer.allowed => rateAnswer.retryAfter > 0)
    /\ [][(rateAnswer' # rateAnswer /\ ~rateAnswer'.allowed)
            => UNCHANGED <<rateRequests, rateAllowed>>]_vars

\* C39 happens: a key has used up its minute, a call for it was answered
\* allowed = false with a retryAfter of more than a second, and calls of the
\* other key were allowed meanwhile
C39_Witness ==
    \E key, other \in RateKeys :
        /\ key # other
        /\ rateAnswer = [key |-> key, allowed |-> FALSE,
                         retryAfter |-> rateAnswer.retryAfter]
        /\ rateAnswer.retryAfter > OneSecond
        /\ Len(rateAllowed[key]) >= RequestsPerMinute
        /\ Len(rateAllowed[other]) > 0
        /\ rateNow >= OneSecond

====
